---- MODULE Spec2Model ----
(***************************************************************************)
(* Model of the recruitment-data pipeline:                                 *)
(*   - DataCleaner    (src/data_collection/data_cleaner.py)                *)
(*   - DatasetBuilder (src/data_processing/dataset_builder.py)             *)
(*   - DataValidator  (src/data_processing/data_validator.py)              *)
(*                                                                         *)
(* Text is a sequence of characters (one-character strings; a Chinese      *)
(* character is written as its pinyin syllable, "bei" for U+5317).         *)
(***************************************************************************)
EXTENDS Integers, Sequences, FiniteSets, TLC

VARIABLES
    (* DataCleaner *)
    seen_hashes,    \* self.seen_hashes
    pc,             \* position of clean_jobs: "idle", "loop", "done", or
                    \* "raised" once an exception has left the call
    jobs,           \* the argument of the running clean_jobs call
    idx,            \* 1-based position of the for loop in jobs
    cleaned_jobs,   \* the local list cleaned_jobs (the return value)
    stats,          \* the local dict stats
    clock,          \* the wall clock read by datetime.now()
    log,            \* history: per processed record, its outcome and the clock
    seen_at_start,  \* history: seen_hashes when the running call was entered
    runs,           \* history: number of clean_jobs calls made on the cleaner
    (* DatasetBuilder *)
    annotations,    \* the argument of the last build_from_annotations call
    ratios,         \* its train_ratio and eval_ratio
    all_samples,    \* the local list all_samples after random.shuffle
    train_data,     \* self.train_data
    eval_data,      \* self.eval_data
    test_data,      \* self.test_data
    built,          \* history: build_from_annotations has been called
    disk,           \* the files _save_jsonl wrote, by path
    saved,          \* history: save_datasets has been called
    (* the split sizes taken alone *)
    split_in,       \* total, train_ratio and eval_ratio given to the size computation
    split_out,      \* train_size and eval_size computed from them, once done
    (* DataValidator *)
    v_pc,           \* position of validate_dataset
    file,           \* what open(dataset_path) and the json parser give
    data,           \* the local data
    errors,         \* self.errors
    warnings,       \* self.warnings
    passed,         \* the first component of the returned tuple
    ran,            \* history: the checks entered, with the items each examined
    (* one function taken alone *)
    call,           \* the arguments of the function
    ret,            \* what it returned, once called
    (* CrawlerUtils *)
    request_interval,   \* self.request_interval
    max_retries,        \* self.max_retries
    attempt,            \* the loop variable of safe_request
    sr_pc,              \* position of safe_request
    sr_log,             \* history: the sleeps and the requests of the call
    sr_ret,             \* what safe_request returned
    (* ZhihuCrawler *)
    c_pc,               \* position of the crawl call
    c_kind,             \* "topic": crawl_topic_answers, "search": crawl_search_results
    limit,              \* the argument limit
    all_results,        \* all_answers, all_results
    offset,             \* offset
    requested,          \* history: the offsets safe_request was called with
    handled,            \* history: the pages whose entries were appended
    collected_content   \* self.collected_content

cleanerVars == <<seen_hashes, pc, jobs, idx, cleaned_jobs, stats, clock, log,
                 seen_at_start, runs>>
builderVars == <<annotations, ratios, all_samples, train_data, eval_data,
                 test_data, built, disk, saved>>
splitVars == <<split_in, split_out>>
validatorVars == <<v_pc, file, data, errors, warnings, passed, ran>>
callVars == <<call, ret>>
requestVars == <<request_interval, max_retries, attempt, sr_pc, sr_log, sr_ret>>
crawlVars == <<c_pc, c_kind, limit, all_results, offset, requested, handled,
               collected_content>>
crawlerVars == <<requestVars, crawlVars>>
vars == <<cleanerVars, builderVars, splitVars, validatorVars, callVars, crawlerVars>>

(***************************************************************************)
(* Bounds                                                                  *)
(***************************************************************************)
MaxJobs == 3        \* longest list given to clean_jobs
MaxRuns == 2        \* clean_jobs calls on the one cleaner
MaxClock == 2       \* clock values 1..MaxClock
MaxAnn == 3         \* longest list given to build_from_annotations
MaxTotal == 60      \* largest sample count in the split-size specification
MaxItems == 2       \* longest dataset given to validate_dataset

(***************************************************************************)
(* Python str helpers used by the cleaner                                  *)
(***************************************************************************)
\* characters str.split() and str.strip() treat as whitespace
Whitespace == {" ", "\t", "nbsp", "ideographic_space"}

RECURSIVE lstrip(_)
lstrip(t) == IF t # <<>> /\ Head(t) \in Whitespace THEN lstrip(Tail(t)) ELSE t

RECURSIVE rstrip(_)
rstrip(t) ==
    IF t # <<>> /\ t[Len(t)] \in Whitespace
    THEN rstrip(SubSeq(t, 1, Len(t) - 1)) ELSE t

\* str.strip()
strip(t) == rstrip(lstrip(t))

RECURSIVE WordLen(_)
WordLen(t) ==
    IF t = <<>> \/ Head(t) \in Whitespace THEN 0 ELSE 1 + WordLen(Tail(t))

\* str.split() without arguments: the maximal runs of non-whitespace
RECURSIVE split(_)
split(t) ==
    LET s == lstrip(t) IN
    IF s = <<>> THEN <<>>
    ELSE LET n == WordLen(s) IN
         <<SubSeq(s, 1, n)>> \o split(SubSeq(s, n + 1, Len(s)))

\* sep.join(words)
RECURSIVE join(_, _)
join(sep, words) ==
    IF words = <<>> THEN <<>>
    ELSE IF Len(words) = 1 THEN words[1]
    ELSE words[1] \o sep \o join(sep, Tail(words))

\* str.replace(old, new) for one-character old and new
replace(t, old, new) == [i \in 1..Len(t) |-> IF t[i] = old THEN new ELSE t[i]]

\* needle in haystack (substring test)
Contains(haystack, needle) ==
    \E i \in 0..(Len(haystack) - Len(needle)) :
        SubSeq(haystack, i + 1, i + Len(needle)) = needle

\* str.startswith and str.endswith
startswith(t, prefix) ==
    Len(t) >= Len(prefix) /\ SubSeq(t, 1, Len(prefix)) = prefix

endswith(t, suffix) ==
    Len(t) >= Len(suffix) /\ SubSeq(t, Len(t) - Len(suffix) + 1, Len(t)) = suffix

InstOpenTag == <<"<", "s", ">", "[", "I", "N", "S", "T", "]">>
InstCloseTag == <<"[", "/", "I", "N", "S", "T", "]">>
EndTag == <<"<", "/", "s", ">">>

\* the positions at which needle occurs in t
occurrences(t, needle) ==
    {i \in 1..(Len(t) - Len(needle) + 1) : SubSeq(t, i, i + Len(needle) - 1) = needle}

\* dict.get(field, "")
get(job, field) == IF field \in DOMAIN job THEN job[field] ELSE <<>>

\* A field value that is not text (a number) is written as the character
\* "int" followed by the characters of its decimal form.
is_str(value) == value = <<>> \/ value[1] # "int"

\* str(value)
str(value) == IF is_str(value) THEN value ELSE Tail(value)

\* bool(value): the empty string and the number 0 are false
truthy(value) == IF is_str(value) THEN value # <<>> ELSE Tail(value) # <<"0">>

\* str.encode() raises UnicodeEncodeError on a lone surrogate (U+D800..U+DFFF)
encodable(t) == \A i \in 1..Len(t) : t[i] # "lone_surrogate"

(***************************************************************************)
(* Deadlines.  A deadline string is abstracted to the layout it is written *)
(* in and the instant it denotes; the empty string has the layout "", a    *)
(* string that no format parses the layout "text", and a deadline that is  *)
(* a number other than 0 the layout "int".                                 *)
(***************************************************************************)
EmptyDeadline == [layout |-> "", t |-> 0]

get_deadline(job) ==
    IF "deadline" \in DOMAIN job THEN job["deadline"] ELSE EmptyDeadline

date_formats == <<"%Y-%m-%d", "%Y/%m/%d", "%Y-%m-%d %H:%M:%S", "%Y/%m/%d %H:%M:%S">>

\* datetime.strptime(deadline, fmt): the parsed instant, or the exception
strptime(deadline, fmt) ==
    IF deadline.layout = "int" THEN [ok |-> FALSE, t |-> 0, exc |-> "TypeError"]
    ELSE IF deadline.layout = fmt THEN [ok |-> TRUE, t |-> deadline.t, exc |-> ""]
    ELSE [ok |-> FALSE, t |-> 0, exc |-> "ValueError"]

\* the loop over date_formats: the first format that parses wins, a
\* ValueError moves on to the next format, any other exception leaves the loop
RECURSIVE parse_deadline(_, _)
parse_deadline(deadline, i) ==
    IF i > Len(date_formats) THEN [ok |-> FALSE, t |-> 0, exc |-> ""]
    ELSE LET r == strptime(deadline, date_formats[i]) IN
         IF r.ok \/ r.exc # "ValueError" THEN r
         ELSE parse_deadline(deadline, i + 1)

is_expired_fail_closed(deadline, now) ==
    IF deadline.layout = "" THEN FALSE
    ELSE LET deadline_date == parse_deadline(deadline, 1) IN
         IF deadline_date.ok THEN deadline_date.t < now ELSE TRUE

\* _is_expired: an exception other than ValueError is caught by the outer
\* except, which falls through to "return False"
is_expired(deadline, now) ==
    IF deadline.layout = "" THEN FALSE
    ELSE LET deadline_date == parse_deadline(deadline, 1) IN
         IF deadline_date.exc # "" THEN FALSE
         ELSE IF deadline_date.ok THEN deadline_date.t < now
         ELSE FALSE

(***************************************************************************)
(* URLs: urllib.parse.urlparse on a sequence of characters, where the      *)
(* scheme words "http", "https" and "ftp" are single characters.           *)
(***************************************************************************)
SchemeChars == {"http", "https", "ftp", "h"}

\* index of the first occurrence of c in t, 0 if none
RECURSIVE find(_, _, _)
find(t, c, i) ==
    IF i > Len(t) THEN 0 ELSE IF t[i] = c THEN i ELSE find(t, c, i + 1)

urlparse(url) ==
    LET u == lstrip(url)
        i == find(u, ":", 1)
        hasScheme == i > 1 /\ \A k \in 1..(i - 1) : u[k] \in SchemeChars
        scheme == IF hasScheme THEN SubSeq(u, 1, i - 1) ELSE <<>>
        rest == IF hasScheme THEN SubSeq(u, i + 1, Len(u)) ELSE u
        hasNetloc == Len(rest) >= 2 /\ rest[1] = "/" /\ rest[2] = "/"
        after == IF hasNetloc THEN SubSeq(rest, 3, Len(rest)) ELSE <<>>
        j == find(after, "/", 1)
        netloc == IF j = 0 THEN after ELSE SubSeq(after, 1, j - 1)
    IN [scheme |-> scheme, netloc |-> netloc]

\* ParseResult.hostname: the netloc without userinfo and port
hostname(netloc) ==
    LET a == find(netloc, "@", 1)
        hostport == IF a = 0 THEN netloc ELSE SubSeq(netloc, a + 1, Len(netloc))
        p == find(hostport, ":", 1)
    IN IF p = 0 THEN hostport ELSE SubSeq(hostport, 1, p - 1)

\* _is_valid_url: urlparse raises on a value that is not text, which the
\* except turns into False
is_valid_url(url) ==
    LET result == urlparse(url) IN
    /\ is_str(url)
    /\ result.scheme \in {<<"http">>, <<"https">>}
    /\ result.netloc # <<>>

(***************************************************************************)
(* DataCleaner                                                             *)
(***************************************************************************)
\* the f-string of _is_duplicate: the three raw fields, concatenated
Key(job) ==
    str(get(job, "company_name")) \o str(get(job, "job_title")) \o str(get(job, "location"))

\* hashlib.md5(key.encode()).hexdigest(): a digest, one per key
md5(key) == <<"md5", key>>

is_duplicate_forgets(job, seen) ==
    [ret |-> md5(Key(job)) \in seen, seen |-> seen, raised |-> FALSE]

is_duplicate_evicts(job, seen) ==
    LET job_hash == md5(Key(job)) IN
    IF job_hash \in seen
    THEN [ret |-> TRUE, seen |-> seen \ {job_hash}, raised |-> FALSE]
    ELSE [ret |-> FALSE, seen |-> seen \cup {job_hash}, raised |-> FALSE]

\* _is_duplicate: the returned value and self.seen_hashes after the call,
\* or the UnicodeEncodeError of key.encode()
is_duplicate(job, seen) ==
    LET job_hash == md5(Key(job)) IN
    IF ~encodable(Key(job)) THEN [ret |-> FALSE, seen |-> seen, raised |-> TRUE]
    ELSE IF job_hash \in seen THEN [ret |-> TRUE, seen |-> seen, raised |-> FALSE]
    ELSE [ret |-> FALSE, seen |-> seen \cup {job_hash}, raised |-> FALSE]

required_fields == <<"company_name", "job_title", "apply_url">>

\* _check_required_fields: "not value or not str(value).strip()" fails
check_required_fields(job) ==
    \A k \in 1..Len(required_fields) :
        LET value == get(job, required_fields[k]) IN
        ~(~truthy(value) \/ strip(str(value)) = <<>>)

clean_text_strips_one(text) ==
    IF ~truthy(text) THEN <<>>
    ELSE IF Head(str(text)) \in Whitespace THEN Tail(str(text)) ELSE str(text)

\* _clean_text
clean_text(text) ==
    IF ~truthy(text) THEN <<>>
    ELSE LET t1 == join(<<" ">>, split(str(text)))
             t2 == replace(t1, "nbsp", " ")
             t3 == replace(t2, "ideographic_space", " ")
             t4 == replace(t3, "\t", " ")
         IN strip(t4)

\* the keys and values of edu_mapping, in insertion order
edu_mapping == <<
    <<<<"da", "zhuan">>, <<"zhuan", "ke">>>>,
    <<<<"zhuan", "ke", "ji", "yi", "shang">>, <<"zhuan", "ke">>>>,
    <<<<"ben", "ke", "ji", "yi", "shang">>, <<"ben", "ke">>>>,
    <<<<"shuo", "shi", "ji", "yi", "shang">>, <<"shuo", "shi">>>>,
    <<<<"bo", "shi", "ji", "yi", "shang">>, <<"bo", "shi">>>>,
    <<<<"xue", "shi">>, <<"ben", "ke">>>>,
    <<<<"yan", "jiu", "sheng">>, <<"shuo", "shi">>>>,
    <<<<"P", "h", "D">>, <<"bo", "shi">>>> >>

valid_educations == {
    <<"bu", "xian">>, <<"zhuan", "ke">>, <<"ben", "ke">>, <<"shuo", "shi">>,
    <<"bo", "shi">>, <<"da", "zhuan">>, <<"xue", "shi">>,
    <<"yan", "jiu", "sheng">>, <<"P", "h", "D">> }

RECURSIVE edu_lookup(_, _)
edu_lookup(education, i) ==
    IF i > Len(edu_mapping)
    THEN IF education \in valid_educations THEN education ELSE <<"bu", "xian">>
    ELSE IF Contains(education, edu_mapping[i][1]) THEN edu_mapping[i][2]
         ELSE edu_lookup(education, i + 1)

normalize_education_keeps_valid(education) ==
    IF clean_text(education) \in valid_educations THEN clean_text(education)
    ELSE edu_lookup(clean_text(education), 1)

\* _normalize_education
normalize_education(education) == edu_lookup(clean_text(education), 1)

major_cities == <<
    <<"bei", "jing">>, <<"shang", "hai">>, <<"guang", "zhou">>,
    <<"shen", "zhen">>, <<"hang", "zhou">>, <<"nan", "jing">>,
    <<"cheng", "du">>, <<"wu", "han">>, <<"xi", "an">>,
    <<"chong", "qing_celebrate">>, <<"tian", "jin">>, <<"su", "zhou">>,
    <<"chang", "sha">>, <<"zheng", "zhou">>, <<"qing_green", "dao">>,
    <<"da", "lian">> >>

RECURSIVE city_lookup(_, _)
city_lookup(location, i) ==
    IF i > Len(major_cities) THEN location
    ELSE IF Contains(location, major_cities[i]) THEN major_cities[i]
         ELSE city_lookup(location, i + 1)

\* _normalize_location
normalize_location(location) == city_lookup(clean_text(location), 1)

text_fields == {"company_name", "job_title", "location", "description", "requirements"}

\* _normalize_job: a copy of job with cleaned fields and the cleaning time
normalize_job(job, now) ==
    [f \in DOMAIN job \cup {"cleaned_time"} |->
        IF f = "cleaned_time" THEN now
        ELSE IF f = "location" THEN normalize_location(clean_text(job[f]))
        ELSE IF f \in text_fields THEN clean_text(job[f])
        ELSE IF f = "education" THEN normalize_education(job[f])
        ELSE job[f]]

normalize_job_in_place(job, now) ==
    [input |-> normalize_job(job, now), normalized |-> normalize_job(job, now)]

\* the call _normalize_job(job): "normalized = job.copy()" leaves the
\* caller's record as it is, the assignments go to the copy
normalize_job_call(job, now) ==
    [input |-> job, normalized |-> normalize_job(job, now)]

outcome_fields_first(job, dup, now) ==
    IF ~check_required_fields(job) THEN "missing_fields"
    ELSE IF dup THEN "duplicates"
    ELSE IF ~is_valid_url(get(job, "apply_url")) THEN "invalid_url"
    ELSE IF is_expired(get_deadline(job), now) THEN "expired"
    ELSE "valid"

\* the if/continue chain of the loop body of clean_jobs: the counter the
\* record is counted under, given what _is_duplicate returned
outcome(job, dup, now) ==
    IF dup THEN "duplicates"
    ELSE IF ~check_required_fields(job) THEN "missing_fields"
    ELSE IF ~is_valid_url(get(job, "apply_url")) THEN "invalid_url"
    ELSE IF is_expired(get_deadline(job), now) THEN "expired"
    ELSE "valid"

append_front(list, x) == <<x>> \o list

\* list.append(x)
append(list, x) == Append(list, x)

count_skips_expired(st, o) ==
    IF o = "expired" THEN st ELSE [st EXCEPT ![o] = @ + 1]

\* stats[o] += 1
count(st, o) == [st EXCEPT ![o] = @ + 1]

(***************************************************************************)
(* The records given to clean_jobs                                         *)
(***************************************************************************)
UrlOk == <<"https", ":", "/", "/", "h">>
UrlNoHost == <<"http", ":", "/", "/", ":", "8", "0">>
UrlText == <<"h", " ", "h">>
UrlBlank == <<" ">>
Deadline1 == [layout |-> "%Y-%m-%d", t |-> 1]

\* accepted until the clock passes its deadline
JobA == [company_name |-> <<"a">>, job_title |-> <<"b", "c">>,
         apply_url |-> UrlOk, deadline |-> Deadline1]
\* other fields than JobA, the same concatenation
JobB == [company_name |-> <<"a", "b">>, job_title |-> <<"c">>, apply_url |-> UrlOk]
\* the fields of JobA, a blank apply_url
JobBlank == [company_name |-> <<"a">>, job_title |-> <<"b", "c">>, apply_url |-> UrlBlank]
\* "not a url" and a deadline
JobBadUrl == [company_name |-> <<"b">>, job_title |-> <<"c">>,
              apply_url |-> UrlText, deadline |-> Deadline1]
\* a URL with a port and no host, text to normalise
JobNoHost == [company_name |-> <<" ", "a">>, job_title |-> <<"c">>,
              location |-> <<"bei", "jing", "shi_city">>, apply_url |-> UrlNoHost]

Jobs == {JobA, JobB, JobBlank, JobBadUrl, JobNoHost}

JobSeqs == UNION {[1..n -> Jobs] : n \in 0..MaxJobs}

(***************************************************************************)
(* Records whose values are not all text, or not all encodable             *)
(***************************************************************************)
\* a company name holding the lone surrogate U+D800
JobSurrogate == [company_name |-> <<"lone_surrogate">>, job_title |-> <<"c">>,
                 apply_url |-> UrlOk]
\* numbers for company_name, education and deadline
JobNumbers == [company_name |-> <<"int", "5">>, job_title |-> <<"c">>,
               apply_url |-> UrlOk, education |-> <<"int", "3">>,
               deadline |-> [layout |-> "int", t |-> 0]]
\* the number 0 for job_title
JobZeroTitle == [company_name |-> <<"a">>, job_title |-> <<"int", "0">>,
                 apply_url |-> UrlOk]
\* a number for apply_url
JobUrlNumber == [company_name |-> <<"a">>, job_title |-> <<"c">>,
                 apply_url |-> <<"int", "7">>]
\* a deadline that no format parses
JobTextDeadline == [company_name |-> <<"b">>, job_title |-> <<"c">>,
                    apply_url |-> UrlOk, deadline |-> [layout |-> "text", t |-> 0]]
\* a deadline in the fourth format
JobSlashDeadline == [company_name |-> <<"c">>, job_title |-> <<"c">>,
                     apply_url |-> UrlOk,
                     deadline |-> [layout |-> "%Y/%m/%d %H:%M:%S", t |-> 1]]

TypedJobs == {JobSurrogate, JobNumbers, JobZeroTitle, JobUrlNumber,
              JobTextDeadline, JobSlashDeadline}

TypedJobSeqs == UNION {[1..n -> TypedJobs] : n \in 0..MaxJobs}

(***************************************************************************)
(* clean_jobs, one record of the for loop per step                         *)
(***************************************************************************)
InitCleaner ==
    /\ seen_hashes = {}
    /\ pc = "idle"
    /\ jobs = <<>>
    /\ idx = 0
    /\ cleaned_jobs = <<>>
    /\ stats = [total |-> 0, duplicates |-> 0, invalid_url |-> 0,
                missing_fields |-> 0, expired |-> 0, valid |-> 0]
    /\ clock = 1
    /\ log = <<>>
    /\ seen_at_start = {}
    /\ runs = 0

CleanStart_resets(js) ==
    /\ pc = "idle"
    /\ runs < MaxRuns
    /\ jobs' = js
    /\ idx' = 1
    /\ cleaned_jobs' = <<>>
    /\ stats' = [total |-> Len(js), duplicates |-> 0, invalid_url |-> 0,
                 missing_fields |-> 0, expired |-> 0, valid |-> 0]
    /\ log' = <<>>
    /\ seen_at_start' = seen_hashes
    /\ runs' = runs + 1
    /\ pc' = "loop"
    /\ seen_hashes' = {}
    /\ UNCHANGED clock

\* entry of clean_jobs: the locals before the loop
CleanStart(js) ==
    /\ pc = "idle"
    /\ runs < MaxRuns
    /\ jobs' = js
    /\ idx' = 1
    /\ cleaned_jobs' = <<>>
    /\ stats' = [total |-> Len(js), duplicates |-> 0, invalid_url |-> 0,
                 missing_fields |-> 0, expired |-> 0, valid |-> 0]
    /\ log' = <<>>
    /\ seen_at_start' = seen_hashes
    /\ runs' = runs + 1
    /\ pc' = "loop"
    /\ UNCHANGED <<seen_hashes, clock>>

\* one iteration of "for job in jobs"
CleanStep ==
    /\ pc = "loop"
    /\ idx <= Len(jobs)
    /\ LET job == jobs[idx]
           dup == is_duplicate(job, seen_hashes)
           o == outcome(job, dup.ret, clock)
       IN IF dup.raised
          THEN \* the exception leaves clean_jobs: no list is returned
               /\ pc' = "raised"
               /\ UNCHANGED <<seen_hashes, stats, cleaned_jobs, log, idx, jobs>>
          ELSE /\ seen_hashes' = dup.seen
               /\ stats' = count(stats, o)
               /\ IF o = "valid"
                  THEN LET c == normalize_job_call(job, clock)
                       IN /\ cleaned_jobs' = append(cleaned_jobs, c.normalized)
                          /\ jobs' = [jobs EXCEPT ![idx] = c.input]
                  ELSE UNCHANGED <<cleaned_jobs, jobs>>
               /\ log' = Append(log, [outcome |-> o, now |-> clock])
               /\ idx' = idx + 1
               /\ UNCHANGED pc
    /\ UNCHANGED <<clock, seen_at_start, runs>>

\* the loop is exhausted: return cleaned_jobs
CleanReturn ==
    /\ pc = "loop"
    /\ idx > Len(jobs)
    /\ pc' = "done"
    /\ UNCHANGED <<seen_hashes, jobs, idx, cleaned_jobs, stats, clock, log,
                   seen_at_start, runs>>

\* the caller drops the returned list; the cleaner keeps seen_hashes
CleanDiscard ==
    /\ pc = "done"
    /\ pc' = "idle"
    /\ jobs' = <<>>
    /\ idx' = 0
    /\ cleaned_jobs' = <<>>
    /\ stats' = [total |-> 0, duplicates |-> 0, invalid_url |-> 0,
                 missing_fields |-> 0, expired |-> 0, valid |-> 0]
    /\ log' = <<>>
    /\ UNCHANGED <<seen_hashes, clock, seen_at_start, runs>>

\* time passes before the next read of datetime.now(): the clock is read
\* only inside the loop, so time that passes elsewhere shows at the next read
Tick ==
    /\ pc = "loop"
    /\ idx <= Len(jobs)
    /\ clock < MaxClock
    /\ clock' = clock + 1
    /\ UNCHANGED <<seen_hashes, pc, jobs, idx, cleaned_jobs, stats, log,
                   seen_at_start, runs>>

\* an answer of the server: text that is no JSON, a JSON object without
\* "data" (or an empty one), or an object with "data" and, if paging is not
\* "absent", with paging.is_end true ("end") or false ("more")
NoBody == [json |-> FALSE, has_data |-> FALSE, items |-> <<>>, paging |-> "absent"]

\* what safe_request returns: None, or the response of a request
NoResponse == [none |-> TRUE, body |-> NoBody]
\* CrawlerUtils.__init__
InitRequest(interval, retries) ==
    /\ request_interval = interval
    /\ max_retries = retries
    /\ attempt = 0
    /\ sr_pc = "idle"
    /\ sr_log = <<>>
    /\ sr_ret = NoResponse

\* ZhihuCrawler.__init__
InitCrawler ==
    /\ InitRequest(<<3, 6>>, 3)
    /\ c_pc = "idle"
    /\ c_kind = ""
    /\ limit = 0
    /\ all_results = <<>>
    /\ offset = 0
    /\ requested = <<>>
    /\ handled = <<>>
    /\ collected_content = <<>>

InitBuilder ==
    /\ annotations = <<>>
    /\ ratios = <<>>
    /\ all_samples = <<>>
    /\ train_data = <<>>
    /\ eval_data = <<>>
    /\ test_data = <<>>
    /\ built = FALSE
    /\ disk = [path \in {<<".", "data", "train.jsonl">>, <<".", "data", "eval.jsonl">>,
                         <<".", "data", "test.jsonl">>, <<"train.jsonl">>,
                         <<"eval.jsonl">>, <<"test.jsonl">>} |->
                  [exists |-> FALSE, content |-> <<>>]]
    /\ saved = FALSE

InitSplit ==
    /\ split_in = [total |-> 0, train_ratio |-> [num |-> 0, den |-> 1],
                   eval_ratio |-> [num |-> 0, den |-> 1]]
    /\ split_out = [done |-> FALSE, train_size |-> 0, eval_size |-> 0]

InitValidator ==
    /\ v_pc = "idle"
    /\ file = [opens |-> FALSE, data |-> [type |-> "list", items |-> <<>>, zero |-> FALSE]]
    /\ data = [type |-> "list", items |-> <<>>, zero |-> FALSE]
    /\ errors = <<>>
    /\ warnings = <<>>
    /\ passed = FALSE
    /\ ran = <<>>

InitCall ==
    /\ call = <<>>
    /\ ret = <<>>

Init ==
    /\ InitCleaner
    /\ InitBuilder
    /\ InitSplit
    /\ InitValidator
    /\ InitCall
    /\ InitCrawler

Next ==
    \/ /\ pc = "idle"
       /\ \E js \in JobSeqs : CleanStart(js)
       /\ UNCHANGED <<builderVars, splitVars, validatorVars, callVars, crawlerVars>>
    \/ CleanStep /\ UNCHANGED <<builderVars, splitVars, validatorVars, callVars, crawlerVars>>
    \/ CleanReturn /\ UNCHANGED <<builderVars, splitVars, validatorVars, callVars, crawlerVars>>
    \/ CleanDiscard /\ UNCHANGED <<builderVars, splitVars, validatorVars, callVars, crawlerVars>>
    \/ Tick /\ UNCHANGED <<builderVars, splitVars, validatorVars, callVars, crawlerVars>>

Spec == Init /\ [][Next]_vars

\* one clean_jobs call on a new cleaner, given records of any value types
NextTyped ==
    \/ /\ pc = "idle"
       /\ runs = 0
       /\ \E js \in TypedJobSeqs : CleanStart(js)
       /\ UNCHANGED <<builderVars, splitVars, validatorVars, callVars, crawlerVars>>
    \/ CleanStep /\ UNCHANGED <<builderVars, splitVars, validatorVars, callVars, crawlerVars>>
    \/ CleanReturn /\ UNCHANGED <<builderVars, splitVars, validatorVars, callVars, crawlerVars>>
    \/ Tick /\ UNCHANGED <<builderVars, splitVars, validatorVars, callVars, crawlerVars>>

TypedSpec == Init /\ [][NextTyped]_vars

(***************************************************************************)
(* Properties of the cleaner                                               *)
(***************************************************************************)
\* the fingerprint of the i-th record of the running call
Fp(i) == md5(Key(jobs[i]))

\* the records processed so far by the running call
Processed == 1..Len(log)

\* the first run of the cleaner: no fingerprint was recorded before it
FreshRun == seen_at_start = {}

\* C1: after a clean_jobs call, total is the number of input records and
\* equals valid + duplicates + missing_fields + invalid_url + expired.
C1_FilterTotality ==
    pc = "done" =>
        /\ stats.total = Len(jobs)
        /\ stats.total = stats.valid + stats.duplicates + stats.missing_fields
                         + stats.invalid_url + stats.expired

C1_Witness ==
    /\ pc = "done"
    /\ stats.valid >= 1
    /\ stats.duplicates >= 1
    /\ stats.expired >= 1

\* the two records i < j are the only ones of the call with their fingerprint
OnlyPair(i, j) ==
    /\ i < j
    /\ Fp(i) = Fp(j)
    /\ \A k \in Processed \ {i, j} : Fp(k) # Fp(i)

\* C2 (as claimed): when exactly two records given to a fresh cleaner carry
\* the same fingerprint, exactly one of them is accepted and exactly one is
\* rejected as duplicates.
C2_ExactlyOneAccepted ==
    (pc = "done" /\ FreshRun) =>
        \A i, j \in Processed :
            OnlyPair(i, j) =>
                /\ Cardinality({k \in {i, j} : log[k].outcome = "valid"}) = 1
                /\ Cardinality({k \in {i, j} : log[k].outcome = "duplicates"}) = 1

\* the record passes the three gates that follow the duplicate check
PassesOtherGates(i) ==
    /\ check_required_fields(jobs[i])
    /\ is_valid_url(get(jobs[i], "apply_url"))
    /\ ~is_expired(get_deadline(jobs[i]), log[i].now)

\* C2 (amended): when exactly two records given to a fresh cleaner carry the
\* same fingerprint, the later one is rejected as duplicates and the earlier
\* one is not; the earlier one is accepted exactly when it passes the
\* required-field, URL and expiry gates.
C2_LaterIsDuplicate ==
    (pc = "done" /\ FreshRun) =>
        \A i, j \in Processed :
            OnlyPair(i, j) =>
                /\ log[j].outcome = "duplicates"
                /\ log[i].outcome # "duplicates"
                /\ (log[i].outcome = "valid" <=> PassesOtherGates(i))

C2_Witness ==
    /\ pc = "done"
    /\ FreshRun
    /\ \E i, j \in Processed :
        /\ OnlyPair(i, j)
        /\ log[i].outcome = "valid"
        /\ log[j].outcome = "duplicates"
        /\ j > i + 1

\* the three raw fields of two records are equal field by field
SameRawFields(a, b) ==
    /\ get(a, "company_name") = get(b, "company_name")
    /\ get(a, "job_title") = get(b, "job_title")
    /\ get(a, "location") = get(b, "location")

\* C3: a record is rejected as duplicates only if an earlier record
\* processed by the same cleaner has an equal company_name, an equal
\* job_title and an equal location.
C3_RawKeyCollisionOnly ==
    FreshRun =>
        \A i \in Processed :
            log[i].outcome = "duplicates" =>
                \E k \in 1..(i - 1) : SameRawFields(jobs[k], jobs[i])

\* C4: a call of _is_duplicate with a fingerprint that is not in seen_hashes
\* returns false and adds it, a call with a fingerprint that is in
\* seen_hashes returns true, and seen_hashes never loses an element.
C4_IsDuplicateContract ==
    [][ /\ seen_hashes \subseteq seen_hashes'
        /\ (pc = "loop" /\ idx <= Len(jobs) /\ idx' = idx + 1) =>
              /\ Fp(idx) \notin seen_hashes =>
                    /\ log'[idx].outcome # "duplicates"
                    /\ seen_hashes' = seen_hashes \cup {Fp(idx)}
              /\ Fp(idx) \in seen_hashes =>
                    /\ log'[idx].outcome = "duplicates"
                    /\ seen_hashes' = seen_hashes ]_vars

C4_Witness ==
    /\ runs = 2
    /\ Len(log) >= 2
    /\ log[1].outcome = "duplicates"
    /\ log[2].outcome # "duplicates"
    /\ Fp(2) \in seen_hashes

\* C5: no two accepted records of one clean_jobs call share a fingerprint.
C5_AcceptedFingerprintsDistinct ==
    \A i, j \in Processed :
        (i # j /\ log[i].outcome = "valid" /\ log[j].outcome = "valid")
            => Fp(i) # Fp(j)

C5_Witness ==
    /\ Len(cleaned_jobs) >= 2
    /\ \E i, j \in Processed :
        i # j /\ log[i].outcome = "valid" /\ log[j].outcome = "valid"

\* an earlier record of the running call has the fingerprint of record i
SeenInThisRun(i) == \E k \in 1..(i - 1) : Fp(k) = Fp(i)

\* C6 (as claimed): which records a clean_jobs call rejects as duplicates
\* depends only on the records of that call.
C6_DuplicatesDependOnRunOnly ==
    \A i \in Processed :
        log[i].outcome = "duplicates" <=> SeenInThisRun(i)

\* C6 (amended): the fingerprint set belongs to the cleaner instance.  A new
\* cleaner starts with an empty set; a clean_jobs call rejects as duplicates
\* exactly the records whose fingerprint the same cleaner recorded in an
\* earlier call or for an earlier record of this call.
C6_DuplicatesDependOnInstance ==
    /\ runs = 0 => seen_hashes = {}
    /\ runs = 1 => seen_at_start = {}
    /\ seen_at_start \subseteq seen_hashes
    /\ \A i \in Processed :
        log[i].outcome = "duplicates" <=> (Fp(i) \in seen_at_start \/ SeenInThisRun(i))

C6_Witness ==
    /\ runs = 2
    /\ \E i \in Processed :
        /\ log[i].outcome = "duplicates"
        /\ ~SeenInThisRun(i)
        /\ Fp(i) \in seen_at_start

\* C7: every record returned by clean_jobs has a non-empty company_name and
\* job_title and an apply_url with scheme http or https and a non-empty host.
C7_CleanedRecordValid ==
    \A k \in 1..Len(cleaned_jobs) :
        LET r == cleaned_jobs[k]
            u == urlparse(get(r, "apply_url"))
        IN /\ get(r, "company_name") # <<>>
           /\ get(r, "job_title") # <<>>
           /\ u.scheme \in {<<"http">>, <<"https">>}
           /\ hostname(u.netloc) # <<>>

\* what each gate says of record i, each taken on its own
IsDup(i) == Fp(i) \in seen_at_start \/ SeenInThisRun(i)
LacksField(i) ==
    \E f \in {"company_name", "job_title", "apply_url"} :
        strip(get(jobs[i], f)) = <<>>
BadUrl(i) == ~is_valid_url(get(jobs[i], "apply_url"))
PastDeadline(i) == is_expired(get_deadline(jobs[i]), log[i].now)

\* C8: each record is counted under the first gate it fails, the gates taken
\* in the order duplicate, missing_fields, invalid_url, expired.
C8_GateOrder ==
    \A i \in Processed :
        LET dup == IsDup(i)
            lacks == LacksField(i)
            bad == BadUrl(i)
            past == PastDeadline(i)
        IN /\ dup => log[i].outcome = "duplicates"
           /\ (~dup /\ lacks) => log[i].outcome = "missing_fields"
           /\ (~dup /\ ~lacks /\ bad) => log[i].outcome = "invalid_url"
           /\ (~dup /\ ~lacks /\ ~bad /\ past) => log[i].outcome = "expired"
           /\ (~dup /\ ~lacks /\ ~bad /\ ~past) => log[i].outcome = "valid"

C8_Witness ==
    /\ \E i \in Processed : IsDup(i) /\ LacksField(i)
    /\ \E i \in Processed : ~IsDup(i) /\ LacksField(i) /\ BadUrl(i)
    /\ \E i \in Processed : ~IsDup(i) /\ ~LacksField(i) /\ BadUrl(i) /\ PastDeadline(i)

(***************************************************************************)
(* Python floats.  A float is m * 2^(-s), m a sequence of bits, most       *)
(* significant first, of at most 53 significant bits (IEEE 754 binary64,   *)
(* round to nearest, ties to even); zero has no bits.  A ratio argument is *)
(* the decimal literal num/den (0 <= num <= den) the caller writes.        *)
(***************************************************************************)
Precision == 53

Max(S) == CHOOSE x \in S : \A y \in S : y <= x

\* the value of a sequence of fewer than 31 bits
RECURSIVE bits_value(_)
bits_value(b) ==
    IF b = <<>> THEN 0
    ELSE IF Len(b) = 1 THEN b[1]
    ELSE LET h == Len(b) \div 2 IN
         bits_value(SubSeq(b, 1, h)) * 2^(Len(b) - h)
            + bits_value(SubSeq(b, h + 1, Len(b)))

\* the w low bits of k
to_bits(k, w) == [i \in 1..w |-> (k \div 2^(w - i)) % 2]

\* b without the zero bits that open it
bits_norm(b) ==
    LET ones == {i \in 1..Len(b) : b[i] = 1} IN
    IF ones = {} THEN <<>>
    ELSE SubSeq(b, CHOOSE i \in ones : \A j \in ones : i <= j, Len(b))

\* b + 1
bits_inc(b) ==
    LET zeros == {i \in 1..Len(b) : b[i] = 0} IN
    IF zeros = {} THEN <<1>> \o [i \in 1..Len(b) |-> 0]
    ELSE [i \in 1..Len(b) |->
            IF i < Max(zeros) THEN b[i] ELSE IF i = Max(zeros) THEN 1 ELSE 0]

\* n * b + carry for 0 <= n < 2^7, worked LimbBits bits at a time from the
\* low end
LimbBits == 16

RECURSIVE bits_mul_carry(_, _, _)
bits_mul_carry(b, n, carry) ==
    IF b = <<>> THEN to_bits(carry, 30)
    ELSE LET w == IF Len(b) <= LimbBits THEN Len(b) ELSE LimbBits
             t == n * bits_value(SubSeq(b, Len(b) - w + 1, Len(b))) + carry
         IN bits_mul_carry(SubSeq(b, 1, Len(b) - w), n, t \div 2^w)
                \o to_bits(t % 2^w, w)

\* n * b
bits_mul(b, n) == bits_norm(bits_mul_carry(b, n, 0))

\* 2^i modulo q
RECURSIVE pow2mod(_, _)
pow2mod(i, q) ==
    IF i = 0 THEN 1 % q
    ELSE LET h == pow2mod(i \div 2, q) IN
         (h * h * (IF i % 2 = 1 THEN 2 ELSE 1)) % q

\* the first n bits of the binary expansion of rem/q (rem < q), and what is
\* left: after i bits the remainder is rem * 2^i modulo q
frac_bits(rem, q, n) ==
    [bits |-> [i \in 1..n |-> (2 * ((rem * pow2mod(i - 1, q)) % q)) \div q],
     rem |-> (rem * pow2mod(n, q)) % q]

\* the number of zero bits that open the binary expansion of rem/q
RECURSIVE leading_zeros(_, _)
leading_zeros(rem, q) ==
    IF 2 * rem >= q THEN 0 ELSE 1 + leading_zeros(2 * rem, q)

\* b rounded to Precision bits: the kept bits and the number of bits dropped
round_bits(b) ==
    IF Len(b) <= Precision THEN [m |-> b, d |-> 0]
    ELSE LET kept == SubSeq(b, 1, Precision)
             dropped == SubSeq(b, Precision + 1, Len(b))
             half == dropped[1] = 1
             sticky == \E i \in 2..Len(dropped) : dropped[i] = 1
             up == half /\ (sticky \/ kept[Precision] = 1)
         IN [m |-> IF up THEN bits_inc(kept) ELSE kept, d |-> Len(b) - Precision]

\* the float a decimal literal num/den denotes
float_of(r) ==
    IF r.num = 0 THEN [m |-> <<>>, s |-> 0]
    ELSE IF r.num = r.den THEN [m |-> <<1>>, s |-> 0]
    ELSE LET z == leading_zeros(r.num, r.den)
             rem0 == r.num * 2^z         \* what is left after the z zero bits
             fb == frac_bits(rem0, r.den, Precision)
             up == \/ 2 * fb.rem > r.den
                   \/ 2 * fb.rem = r.den /\ fb.bits[Precision] = 1
         IN [m |-> IF up THEN bits_inc(fb.bits) ELSE fb.bits, s |-> z + Precision]

\* n * x for an int n >= 0 and a float x
float_mul(n, x) ==
    IF n = 0 \/ x.m = <<>> THEN [m |-> <<>>, s |-> 0]
    ELSE LET r == round_bits(bits_mul(x.m, n)) IN
         [m |-> r.m, s |-> x.s - r.d]

\* int(x) for a float x >= 0: truncation
py_int(x) ==
    IF x.m = <<>> THEN 0
    ELSE IF x.s <= 0 THEN bits_value(x.m) * 2^(0 - x.s)
    ELSE IF Len(x.m) <= x.s THEN 0
    ELSE bits_value(SubSeq(x.m, 1, Len(x.m) - x.s))

(***************************************************************************)
(* DatasetBuilder                                                          *)
(***************************************************************************)
Min(a, b) == IF a <= b THEN a ELSE b

\* seq[lo:hi] for 0 <= lo and 0 <= hi
slice(seq, lo, hi) ==
    LET l == Min(lo, Len(seq))
        h == Min(hi, Len(seq))
    IN IF l >= h THEN <<>> ELSE SubSeq(seq, l + 1, h)

\* MISTRAL_PROMPT_TEMPLATE.format(instruction=..., response=...)
MISTRAL_PROMPT_TEMPLATE(instruction, response) ==
    InstOpenTag \o <<" ">> \o instruction \o <<" ">> \o InstCloseTag \o <<" ">>
    \o response \o EndTag

\* the decimal digits
Digits == <<"0", "1", "2", "3", "4", "5", "6", "7", "8", "9">>

\* str(n) for an int n >= 0
RECURSIVE int_text(_)
int_text(n) ==
    IF n < 10 THEN <<Digits[n + 1]>>
    ELSE int_text(n \div 10) \o <<Digits[(n % 10) + 1]>>

\* json.dumps of a float given in tenths, 0.0 to 1.0
float_text(tenths) ==
    IF tenths >= 10 THEN <<"1", ".", "0">> ELSE <<"0", ".", Digits[tenths + 1]>>

\* the texts of a sequence, one after the other
RECURSIVE concat(_)
concat(texts) ==
    IF texts = <<>> THEN <<>>
    ELSE IF Len(texts) = 1 THEN texts[1]
    ELSE LET h == Len(texts) \div 2 IN
         concat(SubSeq(texts, 1, h)) \o concat(SubSeq(texts, h + 1, Len(texts)))

\* json.dumps(text, ensure_ascii=False): the text between quotes, with a
\* backslash before a quote or a backslash and a line feed written as \n
json_str(t) ==
    <<"\"">>
    \o concat([i \in 1..Len(t) |->
            IF t[i] \in {"\"", "\\"} THEN <<"\\", t[i]>>
            ELSE IF t[i] = "\n" THEN <<"\\", "n">>
            ELSE <<t[i]>>])
    \o <<"\"">>

indent(n) == [i \in 1..n |-> " "]

\* json.dumps(dict, indent=2) at a nesting depth: the members, each a pair of
\* a key and its dumped value, are written in the iteration order of the
\* dict, which is the order its keys were inserted in
json_object(members, depth) ==
    IF members = <<>> THEN <<"{", "}">>
    ELSE <<"{", "\n">>
         \o join(<<",", "\n">>,
                 [k \in 1..Len(members) |->
                    indent(2 * (depth + 1)) \o json_str(<<members[k][1]>>)
                    \o <<":", " ">> \o members[k][2]])
         \o <<"\n">> \o indent(2 * depth) \o <<"}">>

\* json.dumps(list, indent=2) of dumped elements
json_array(elements, depth) ==
    IF elements = <<>> THEN <<"[", "]">>
    ELSE <<"[", "\n">>
         \o join(<<",", "\n">>,
                 [k \in 1..Len(elements) |-> indent(2 * (depth + 1)) \o elements[k]])
         \o <<"\n">> \o indent(2 * depth) \o <<"]">>

\* json.dumps(params, ensure_ascii=False, indent=2) for a dict of strings,
\* given as the sequence of its (key, value) pairs in insertion order
dumps_params(params) ==
    json_object([k \in 1..Len(params) |->
                    <<params[k][1], json_str(params[k][2])>>], 0)

\* the instruction of an input parsing sample
parsing_instruction(user_input) ==
    <<"ni_shi_yige_zhaopin_zhushou_fuze", "jiexi_yonghu_de_qiuzhi_xuqiu", ".", "\n",
      "qing_genju_yonghu_shuru", "tiqu_guanjian_xinxi",
      "bing_yi_JSON_geshi_shuchu_baokuo",
      "major", "education", "target_company_type", "location", "job_type",
      "position", ".", "\n", "\n", "yonghu_shuru", ":">>
    \o user_input

\* _build_input_parsing_samples: one {"text": ...} per item, in order
build_input_parsing_samples(items) ==
    [i \in 1..Len(items) |->
        [text |-> MISTRAL_PROMPT_TEMPLATE(
                      parsing_instruction(items[i].user_input),
                      dumps_params(items[i].structured_params))]]

\* one line of jobs_text
job_line(i, job_item) ==
    int_text(i) \o <<".", " ">> \o get(job_item.job, "company_name")
    \o <<" ", "-", " ">> \o get(job_item.job, "job_title")
    \o <<" ", "(">> \o get(job_item.job, "location") \o <<")", "\n">>

\* jobs_text: every job, numbered from 1 in input order
jobs_text(job_items) == join(<<>>, [i \in 1..Len(job_items) |-> job_line(i, job_items[i])])

\* the instruction of a job matching sample
matching_instruction(user_params, job_items) ==
    <<"ni_shi_yige_zhaopin_zhushou_fuze_wei_yonghu", "pipei_heshi_de_gangwei", ".",
      "\n", "xuanchu_zui_pipei_de_qian_5_ge_gangwei", ".", "\n", "\n",
      "yonghu_xuqiu", ":", "\n",
      "-", " ", "zhuanye", ":">> \o get(user_params, "major")
    \o <<"\n", "-", " ", "xueli", ":">> \o get(user_params, "education")
    \o <<"\n", "-", " ", "mubiao_qiye", ":">> \o get(user_params, "target_company_type")
    \o <<"\n", "-", " ", "didian", ":">> \o get(user_params, "location")
    \o <<"\n", "\n", "houxuan_gangwei", ":", "\n">> \o jobs_text(job_items)
    \o <<"\n", "\n", "qing_shuchu", "pipei_jieguo", "(", "JSON", "geshi", ")", ".">>

\* the first n jobs in descending order of score: the sort is stable, so a
\* job goes behind every earlier job whose score is not smaller
RECURSIVE sorted_prefix(_, _)
sorted_prefix(job_items, n) ==
    IF n = 0 THEN <<>>
    ELSE LET front == sorted_prefix(job_items, n - 1)
             k == Cardinality({i \in 1..Len(front) :
                      front[i].match_score >= job_items[n].match_score})
         IN SubSeq(front, 1, k) \o <<job_items[n]>>
            \o SubSeq(front, k + 1, Len(front))

sorted_by_score_unstable(job_items) ==
    sorted_prefix([i \in 1..Len(job_items) |-> job_items[Len(job_items) + 1 - i]],
                  Len(job_items))

\* sorted(jobs, key=lambda x: x["match_score"], reverse=True)
sorted_by_score(job_items) == sorted_prefix(job_items, Len(job_items))

\* the number of jobs a matching response lists at most
TopJobs == 5

\* top_jobs
top_jobs(job_items) == slice(sorted_by_score(job_items), 0, TopJobs)

\* response_data
response_data(job_items) ==
    LET top == top_jobs(job_items) IN
    [i \in 1..Len(top) |->
        [rank |-> i,
         company |-> get(top[i].job, "company_name"),
         position |-> get(top[i].job, "job_title"),
         location |-> get(top[i].job, "location"),
         match_score |-> top[i].match_score,
         reason |-> top[i].reason]]

\* json.dumps(response_data, ensure_ascii=False, indent=2)
dumps_response(entries) ==
    json_array([i \in 1..Len(entries) |->
        json_object(<< <<"rank", int_text(entries[i].rank)>>,
                       <<"company", json_str(entries[i].company)>>,
                       <<"position", json_str(entries[i].position)>>,
                       <<"location", json_str(entries[i].location)>>,
                       <<"match_score", float_text(entries[i].match_score)>>,
                       <<"reason", json_str(entries[i].reason)>> >>, 1)], 0)

\* _build_job_matching_samples
build_job_matching_samples(items) ==
    [i \in 1..Len(items) |->
        [text |-> MISTRAL_PROMPT_TEMPLATE(
                      matching_instruction(items[i].user_params, items[i].jobs),
                      dumps_response(response_data(items[i].jobs)))]]

\* _format_tips_list
format_tips_list(tips) ==
    join(<<"\n">>, [k \in 1..Len(tips) |-> <<"-", " ">> \o tips[k]])

\* the instruction of an advice sample
advice_instruction(scenario) ==
    <<"ni_shi_yige_zishen_de", "zhiye_guihua", "guwen", ".", "\n", "\n",
      "qiuzhi_changjing", ":">> \o scenario
    \o <<"\n", "\n", "qing_tigong_yixia_san_fangmian_de_jianyi", ":", "\n",
         "1", ".", " ", "jianli_youhua", "jianyi", "\n",
         "2", ".", " ", "mianshi_zhunbei", "jianyi", "\n",
         "3", ".", " ", "toudi_celue", "jianyi">>

\* the response of an advice sample
advice_response(advice) ==
    <<"#", "#", " ", "jianli_youhua", "jianyi", "\n", "\n">>
    \o format_tips_list(get(advice, "resume_optimization"))
    \o <<"\n", "\n", "#", "#", " ", "mianshi_zhunbei", "jianyi", "\n", "\n">>
    \o format_tips_list(get(advice, "interview_preparation"))
    \o <<"\n", "\n", "#", "#", " ", "toudi_celue", "jianyi", "\n", "\n">>
    \o format_tips_list(get(advice, "application_strategy"))

\* _build_advice_samples
build_advice_samples(items) ==
    [i \in 1..Len(items) |->
        [text |-> MISTRAL_PROMPT_TEMPLATE(advice_instruction(items[i].scenario),
                                          advice_response(items[i].advice))]]

\* the keys of the dict grouped_data
KnownTypes == {"user_input_parsing", "job_matching", "advice_generation"}

grouped_data_keeps_unknown(anns, ann_type) ==
    SelectSeq(anns, LAMBDA a : \/ a.type = ann_type
                               \/ /\ ann_type = "advice_generation"
                                  /\ a.type \notin KnownTypes)

\* grouped_data[ann_type]: the annotations of one type, in input order
grouped_data(anns, ann_type) == SelectSeq(anns, LAMBDA a : a.type = ann_type)

\* all_samples before the shuffle
build_all_samples(anns) ==
    build_input_parsing_samples(grouped_data(anns, "user_input_parsing"))
    \o build_job_matching_samples(grouped_data(anns, "job_matching"))
    \o build_advice_samples(grouped_data(anns, "advice_generation"))

\* the orders random.shuffle can leave a list in
shuffle(seq) ==
    {[i \in 1..Len(seq) |-> seq[p[i]]] : p \in Permutations(1..Len(seq))}

(***************************************************************************)
(* The arguments given to build_from_annotations                           *)
(***************************************************************************)
\* the six fields an input parsing instruction names, in the order it names
\* them
ParamFields == <<"major", "education", "target_company_type", "location",
                 "job_type", "position">>

\* the value an annotation gives to a field
ParamValue(field) ==
    CASE field = "major" -> <<"ji", "suan", "ji">>
      [] field = "education" -> <<"ben", "ke">>
      [] field = "target_company_type" -> <<"da", "chang">>
      [] field = "location" -> <<"bei", "jing">>
      [] field = "job_type" -> <<"quan", "zhi">>
      [] OTHER -> <<"hou", "duan">>

\* one scored job of a job matching annotation
MatchJob(i, score) ==
    [job |-> [company_name |-> <<"c">> \o int_text(i), job_title |-> <<"t">>,
              location |-> <<"bei", "jing">>],
     match_score |-> score,
     reason |-> <<"r">> \o int_text(i)]

ParsingAnnotation(user_input, params) ==
    [type |-> "user_input_parsing", user_input |-> user_input,
     structured_params |-> params]

MatchingAnnotation(scores) ==
    [type |-> "job_matching",
     user_params |-> [major |-> <<"ji", "suan", "ji">>, education |-> <<"ben", "ke">>],
     jobs |-> [i \in 1..Len(scores) |-> MatchJob(i, scores[i])]]

AdviceAnnotation(type, scenario) ==
    [type |-> type, scenario |-> scenario,
     advice |-> [resume_optimization |-> << <<"a">>, <<"b">> >>,
                 interview_preparation |-> << <<"c">> >>]]

\* annotations of the three known types, one whose user_input holds a lone
\* surrogate, and one of a type build_from_annotations does not know
AnnPool == {
    ParsingAnnotation(<<"x">>, << <<"major", ParamValue("major")>> >>),
    ParsingAnnotation(<<"lone_surrogate">>, <<>>),
    MatchingAnnotation(<<5>>),
    AdviceAnnotation("advice_generation", <<"x">>),
    AdviceAnnotation("human_review", <<"x">>) }

AnnSeqs == UNION {[1..n -> AnnPool] : n \in 0..MaxAnn}

Ratio(num, den) == [num |-> num, den |-> den]

\* 0.8 and 0.1 are the defaults of build_from_annotations
RatioSet == {Ratio(8, 10), Ratio(1, 10), Ratio(1, 2), Ratio(58, 100)}

\* the train_ratio and eval_ratio given together with annotations: the
\* defaults, two other pairs, and a pair that adds up to more than 1
BuildRatios == {<<Ratio(8, 10), Ratio(1, 10)>>, <<Ratio(1, 2), Ratio(1, 2)>>,
                <<Ratio(1, 10), Ratio(1, 10)>>, <<Ratio(8, 10), Ratio(1, 2)>>}

\* int(total * ratio), worked out once for every sample count and ratio
int_of_product ==
    [total \in 0..MaxTotal, ratio \in RatioSet |->
        py_int(float_mul(total, float_of(ratio)))]

\* int(total * train_ratio) and int(total * eval_ratio)
split_sizes(total, train_ratio, eval_ratio) ==
    [train_size |-> int_of_product[total, train_ratio],
     eval_size |-> int_of_product[total, eval_ratio]]

partition_eval_end_relative(samples, train_size, eval_size) ==
    [train |-> slice(samples, 0, train_size),
     eval |-> slice(samples, train_size, eval_size),
     test |-> slice(samples, train_size + eval_size, Len(samples))]

\* the three slices of all_samples
partition(samples, train_size, eval_size) ==
    [train |-> slice(samples, 0, train_size),
     eval |-> slice(samples, train_size, train_size + eval_size),
     test |-> slice(samples, train_size + eval_size, Len(samples))]

\* a call overwrites train_data, eval_data and test_data whatever they held,
\* so one call on the builder is followed
build_from_annotations(anns, train_ratio, eval_ratio) ==
    /\ ~built
    /\ LET samples == build_all_samples(anns)
           total == Len(samples)
           sz == split_sizes(total, train_ratio, eval_ratio)
       IN \E shuffled \in shuffle(samples) :
            LET parts == partition(shuffled, sz.train_size, sz.eval_size)
            IN /\ all_samples' = shuffled
               /\ train_data' = parts.train
               /\ eval_data' = parts.eval
               /\ test_data' = parts.test
    /\ annotations' = anns
    /\ ratios' = <<train_ratio, eval_ratio>>
    /\ built' = TRUE
    /\ UNCHANGED <<disk, saved>>

NextBuild ==
    /\ ~built
    /\ \E anns \in AnnSeqs, r \in BuildRatios :
            build_from_annotations(anns, r[1], r[2])
    /\ UNCHANGED <<cleanerVars, splitVars, validatorVars, callVars, crawlerVars>>

BuildSpec == Init /\ [][NextBuild]_vars

(***************************************************************************)
(* The size computation of build_from_annotations applied to a sample      *)
(* count, without the samples                                              *)
(***************************************************************************)
InitSizes ==
    /\ InitCleaner
    /\ InitBuilder
    /\ InitValidator
    /\ InitCrawler
    /\ InitCall
    /\ split_in \in [total : 0..MaxTotal, train_ratio : RatioSet, eval_ratio : RatioSet]
    /\ split_out = [done |-> FALSE, train_size |-> 0, eval_size |-> 0]

ComputeSizes ==
    /\ ~split_out.done
    /\ LET sz == split_sizes(split_in.total, split_in.train_ratio, split_in.eval_ratio)
       IN split_out' = [done |-> TRUE, train_size |-> sz.train_size,
                        eval_size |-> sz.eval_size]
    /\ UNCHANGED <<split_in, cleanerVars, builderVars, validatorVars, callVars, crawlerVars>>

SizesSpec == InitSizes /\ [][ComputeSizes]_vars

(***************************************************************************)
(* DataValidator.  A JSON value is a record with its Python type; a        *)
(* dataset item is such a value, a dict having at most the key "text".     *)
(***************************************************************************)
StrV(s) == [type |-> "str", s |-> s]
IntV == [type |-> "int", s |-> <<>>]
NoneV == [type |-> "NoneType", s |-> <<>>]

\* {"text": v}, {} and a number
DictItem(v) == [type |-> "dict", has_text |-> TRUE, text |-> v]
EmptyDictItem == [type |-> "dict", has_text |-> FALSE, text |-> NoneV]
IntItem == [type |-> "int", has_text |-> FALSE, text |-> NoneV]

\* item.get("text") and item.get("text", "")
item_get(item) == IF item.has_text THEN item.text ELSE NoneV
item_get_default(item) == IF item.has_text THEN item.text ELSE StrV(<<>>)

\* item.get and text.startswith exist: anything else raises AttributeError
has_str_text(item) == item.type = "dict" /\ item_get_default(item).type = "str"

TooShort == 50
TooLong == 2048
SmallDataset == 1000

\* one entry of self.errors or self.warnings: the 0-based item and the message
Msg(i, m) == [item |-> i - 1, msg |-> m]
LoadFailure == [item |-> -1, msg |-> "Failed to load dataset"]
EmptyDataset == [item |-> -1, msg |-> "Dataset is empty"]

\* the messages _check_format appends for one item
format_errors(item, i) ==
    IF item.type # "dict" THEN <<Msg(i, "Not a dictionary")>>
    ELSE (IF ~item.has_text THEN <<Msg(i, "Missing 'text' field")>> ELSE <<>>)
         \o (IF item_get(item).type # "str"
             THEN <<Msg(i, "'text' field is not a string")>> ELSE <<>>)

\* _check_format: a dataset that is not iterable raises at enumerate(data)
RECURSIVE check_format(_, _, _, _)
check_format(d, i, errs, warns) ==
    IF d.type # "list"
    THEN [errors |-> errs, warnings |-> warns, raised |-> TRUE, examined |-> 0]
    ELSE IF i > Len(d.items)
    THEN [errors |-> errs, warnings |-> warns, raised |-> FALSE, examined |-> i - 1]
    ELSE check_format(d, i + 1, errs \o format_errors(d.items[i], i), warns)

completeness_errors_strict(text, i) ==
    IF ~Contains(text, InstCloseTag) \/ ~startswith(text, InstOpenTag)
    THEN <<Msg(i, "Missing instruction closing tag")>> ELSE <<>>

completeness_errors(text, i) ==
    IF ~Contains(text, InstCloseTag)
    THEN <<Msg(i, "Missing instruction closing tag")>> ELSE <<>>

completeness_warnings(text, i) ==
    (IF ~startswith(text, InstOpenTag)
     THEN <<Msg(i, "Does not start with Mistral instruction tag")>> ELSE <<>>)
    \o (IF ~endswith(text, EndTag)
        THEN <<Msg(i, "Does not end with closing tag")>> ELSE <<>>)
    \o (IF Len(text) < TooShort THEN <<Msg(i, "Text too short")>>
        ELSE IF Len(text) > TooLong THEN <<Msg(i, "Text very long")>>
        ELSE <<>>)

\* _check_completeness: item.get or text.startswith raises on the first item
\* that is not a dict with a str text, what was appended before stays
RECURSIVE check_completeness(_, _, _, _)
check_completeness(d, i, errs, warns) ==
    IF i > Len(d.items)
    THEN [errors |-> errs, warnings |-> warns, raised |-> FALSE, examined |-> i - 1]
    ELSE IF ~has_str_text(d.items[i])
    THEN [errors |-> errs, warnings |-> warns, raised |-> TRUE, examined |-> i - 1]
    ELSE LET text == item_get_default(d.items[i]).s IN
         check_completeness(d, i + 1, errs \o completeness_errors(text, i),
                            warns \o completeness_warnings(text, i))

\* the first loop of _check_content_quality: "text in seen_texts"
RECURSIVE count_duplicates(_, _, _, _)
count_duplicates(d, i, seen_texts, warns) ==
    IF i > Len(d.items)
    THEN [warnings |-> warns, raised |-> FALSE, duplicates |-> 0]
    ELSE IF d.items[i].type # "dict"
    THEN [warnings |-> warns, raised |-> TRUE, duplicates |-> 0]
    ELSE LET text == item_get_default(d.items[i])
             dup == text \in seen_texts
             r == count_duplicates(d, i + 1, seen_texts \cup {text},
                      IF dup THEN Append(warns, Msg(i, "Duplicate text found"))
                      ELSE warns)
         IN [r EXCEPT !.duplicates = @ + (IF dup THEN 1 ELSE 0)]

\* the phrases counted per task, each phrase written as one character
task_keywords == <<
    [task |-> "user_input_parsing",
     warning |-> "Task 'user_input_parsing' is underrepresented",
     phrases |-> {<<"jiexi_yonghu_de_qiuzhi_xuqiu">>, <<"tiqu_guanjian_xinxi">>}],
    [task |-> "job_matching",
     warning |-> "Task 'job_matching' is underrepresented",
     phrases |-> {<<"pipei_heshi_de_gangwei">>, <<"pipei_jieguo">>}],
    [task |-> "advice_generation",
     warning |-> "Task 'advice_generation' is underrepresented",
     phrases |-> {<<"zhiye_guihua">>, <<"jianli_youhua">>}] >>

\* keyword_counts[task] after the second loop
keyword_count(d, k) ==
    Cardinality({i \in 1..Len(d.items) :
        \E ph \in task_keywords[k].phrases :
            Contains(item_get_default(d.items[i]).s, ph)})

\* "ratio < 0.15" for ratio = count / total
underrepresented(cnt, total) == cnt * 100 < 15 * total

RECURSIVE distribution_warnings(_, _, _)
distribution_warnings(d, k, total) ==
    IF k > Len(task_keywords) THEN <<>>
    ELSE (IF underrepresented(keyword_count(d, k), total)
          THEN <<[item |-> -1, msg |-> task_keywords[k].warning]>>
          ELSE <<>>) \o distribution_warnings(d, k + 1, total)

\* _check_content_quality
check_content_quality(d, errs, warns) ==
    LET r == count_duplicates(d, 1, {}, warns)
        w1 == IF r.duplicates > 0
              THEN Append(r.warnings, [item |-> -1, msg |-> "Total duplicate items found"])
              ELSE r.warnings
        total == keyword_count(d, 1) + keyword_count(d, 2) + keyword_count(d, 3)
    IN IF r.raised
       THEN [errors |-> errs, warnings |-> r.warnings, raised |-> TRUE, examined |-> 0]
       ELSE IF \E i \in 1..Len(d.items) : ~has_str_text(d.items[i])
       THEN [errors |-> errs, warnings |-> w1, raised |-> TRUE, examined |-> 0]
       ELSE [errors |-> errs,
             warnings |-> IF total > 0 THEN w1 \o distribution_warnings(d, 1, total)
                          ELSE w1,
             raised |-> FALSE, examined |-> Len(d.items)]

\* _check_statistics
check_statistics(d, errs, warns) ==
    IF \E i \in 1..Len(d.items) : ~has_str_text(d.items[i])
    THEN [errors |-> errs, warnings |-> warns, raised |-> TRUE, examined |-> 0]
    ELSE LET text_lengths == {Len(item_get_default(d.items[i]).s) : i \in 1..Len(d.items)}
             total_samples == Len(d.items)
             max_length == IF text_lengths = {} THEN 0 ELSE Max(text_lengths)
             w1 == IF total_samples < SmallDataset
                   THEN Append(warns, [item |-> -1, msg |-> "Dataset is small"])
                   ELSE warns
             w2 == IF max_length > TooLong
                   THEN Append(w1, [item |-> -1, msg |-> "Some samples are very long"])
                   ELSE w1
         IN [errors |-> errs, warnings |-> w2, raised |-> FALSE,
             examined |-> Len(d.items)]

(***************************************************************************)
(* The files given to validate_dataset                                     *)
(***************************************************************************)
Pad(n) == [i \in 1..n |-> "x"]

\* a well-formed sample of 64 characters
TextOk == InstOpenTag \o <<" ", "jiexi_yonghu_de_qiuzhi_xuqiu">> \o Pad(40)
          \o <<" ">> \o InstCloseTag \o <<" ", "{", "}">> \o EndTag
\* well-formed, 25 characters
TextShort == InstOpenTag \o <<" ", "a", " ">> \o InstCloseTag \o <<" ", "b">> \o EndTag
\* 50 characters, no tag
TextNoTag == Pad(50)
\* 50 characters, the closing tag of the instruction and no other tag
TextBare == Pad(43) \o InstCloseTag
\* well-formed, 2049 characters
TextLong == InstOpenTag \o <<" ">> \o Pad(2049 - 23) \o <<" ">> \o InstCloseTag
            \o <<" ">> \o <<"x">> \o EndTag

ItemPool == {
    DictItem(StrV(TextOk)), DictItem(StrV(TextShort)), DictItem(StrV(TextNoTag)),
    DictItem(StrV(TextBare)), DictItem(StrV(TextLong)),
    EmptyDictItem, DictItem(IntV), IntItem }

ListData(items) == [type |-> "list", items |-> items, zero |-> FALSE]
\* a file holding one JSON number
NumberData(zero) == [type |-> "int", items |-> <<>>, zero |-> zero]

\* the file cannot be opened or parsed, or it holds a list or a number
Files ==
    {[opens |-> FALSE, data |-> ListData(<<>>)]}
    \cup {[opens |-> TRUE, data |-> NumberData(z)] : z \in BOOLEAN}
    \cup {[opens |-> TRUE, data |-> ListData(items)] :
            items \in UNION {[1..n -> ItemPool] : n \in 0..MaxItems}}

\* "not data"
falsy(d) == IF d.type = "list" THEN d.items = <<>> ELSE d.zero

(***************************************************************************)
(* validate_dataset, one check per step                                    *)
(***************************************************************************)
\* lines 31-34: the two lists are replaced by new empty lists
ValidateStart(f) ==
    /\ v_pc = "idle"
    /\ file' = f
    /\ errors' = <<>>
    /\ warnings' = <<>>
    /\ v_pc' = "load"
    /\ UNCHANGED <<data, passed, ran>>

\* lines 36-46 and, for a file that fails to load, 61-63
Load ==
    /\ v_pc = "load"
    /\ IF ~file.opens
       THEN /\ errors' = Append(errors, LoadFailure)
            /\ passed' = FALSE
            /\ v_pc' = "returned"
            /\ UNCHANGED data
       ELSE IF falsy(file.data)
       THEN /\ errors' = Append(errors, EmptyDataset)
            /\ passed' = FALSE
            /\ v_pc' = "returned"
            /\ data' = file.data
       ELSE /\ data' = file.data
            /\ v_pc' = "check_format"
            /\ UNCHANGED <<errors, passed>>
    /\ UNCHANGED <<file, warnings, ran>>

\* a check that ran to its end, or raised into "except Exception" (61-63)
RunCheck(name, r, next) ==
    /\ ran' = Append(ran, [check |-> name, examined |-> r.examined,
                           completed |-> ~r.raised])
    /\ warnings' = r.warnings
    /\ IF r.raised
       THEN /\ errors' = Append(r.errors, LoadFailure)
            /\ passed' = FALSE
            /\ v_pc' = "returned"
       ELSE /\ errors' = r.errors
            /\ v_pc' = next
            /\ UNCHANGED passed
    /\ UNCHANGED <<file, data>>

CheckFormat ==
    /\ v_pc = "check_format"
    /\ RunCheck("format", check_format(data, 1, errors, warnings), "check_completeness")

CheckCompleteness ==
    /\ v_pc = "check_completeness"
    /\ RunCheck("completeness", check_completeness(data, 1, errors, warnings),
                "check_content_quality")

CheckContentQuality ==
    /\ v_pc = "check_content_quality"
    /\ RunCheck("quality", check_content_quality(data, errors, warnings),
                "check_statistics")

CheckStatistics ==
    /\ v_pc = "check_statistics"
    /\ RunCheck("statistics", check_statistics(data, errors, warnings), "finish")

ValidateReturn_counts_warnings ==
    /\ v_pc = "finish"
    /\ passed' = (Len(errors) = 0 /\ Len(warnings) = 0)
    /\ v_pc' = "returned"
    /\ UNCHANGED <<file, data, errors, warnings, ran>>

\* lines 54-59
ValidateReturn ==
    /\ v_pc = "finish"
    /\ passed' = (Len(errors) = 0)
    /\ v_pc' = "returned"
    /\ UNCHANGED <<file, data, errors, warnings, ran>>

NextValidate ==
    \/ /\ v_pc = "idle"
       /\ \E f \in Files : ValidateStart(f)
       /\ UNCHANGED <<cleanerVars, builderVars, splitVars, callVars, crawlerVars>>
    \/ Load /\ UNCHANGED <<cleanerVars, builderVars, splitVars, callVars, crawlerVars>>
    \/ CheckFormat /\ UNCHANGED <<cleanerVars, builderVars, splitVars, callVars, crawlerVars>>
    \/ CheckCompleteness /\ UNCHANGED <<cleanerVars, builderVars, splitVars, callVars, crawlerVars>>
    \/ CheckContentQuality /\ UNCHANGED <<cleanerVars, builderVars, splitVars, callVars, crawlerVars>>
    \/ CheckStatistics /\ UNCHANGED <<cleanerVars, builderVars, splitVars, callVars, crawlerVars>>
    \/ ValidateReturn /\ UNCHANGED <<cleanerVars, builderVars, splitVars, callVars, crawlerVars>>

ValidateSpec == Init /\ [][NextValidate]_vars

(***************************************************************************)
(* Properties of validate_dataset                                          *)
(***************************************************************************)
Range(seq) == {seq[i] : i \in DOMAIN seq}

\* C12: on every return path of validate_dataset, passed is true if and only
\* if the returned error list is empty, whatever the number of warnings.
C12_PassedIffNoErrors ==
    v_pc = "returned" => (passed <=> errors = <<>>)

C12_Witness ==
    /\ v_pc = "returned"
    /\ passed
    /\ Len(warnings) >= 2
    /\ Len(ran) = 4

\* the file loaded as a list with at least one item
LoadedNonEmpty == file.opens /\ file.data.type = "list" /\ file.data.items # <<>>

\* C13: once the dataset has loaded as a non-empty collection, the four
\* checks all run to the end over every item, whatever the items are.
C13_AllChecksRunFully ==
    (v_pc = "returned" /\ LoadedNonEmpty) =>
        /\ [k \in 1..Len(ran) |-> ran[k].check]
              = <<"format", "completeness", "quality", "statistics">>
        /\ \A k \in 1..Len(ran) :
              ran[k].completed /\ ran[k].examined = Len(file.data.items)

\* C14: a file that cannot be opened or parsed, or is empty, gives
\* passed = false with exactly one error, no warning and no check run, and
\* a load-failure error is reported only when loading the file failed.
C14_LoadFailureOnly ==
    v_pc = "returned" =>
        /\ (~file.opens \/ falsy(file.data)) =>
              (~passed /\ Len(errors) = 1 /\ warnings = <<>> /\ ran = <<>>)
        /\ LoadFailure \in Range(errors) => ~file.opens

\* every item is a mapping with a string text
AllStrText == \A i \in 1..Len(file.data.items) :
    file.data.items[i].has_text /\ has_str_text(file.data.items[i])

TextAt(i) == file.data.items[i].text.s

\* C19: for a non-empty dataset whose items are all mappings with a string
\* text, passed is true exactly when every text contains the closing tag of
\* the instruction; a text without the opening tag, without the end tag,
\* shorter than 50 or longer than 2048 adds a warning each and no error.
C19_OnlyMissingCloseTagFails ==
    (v_pc = "returned" /\ LoadedNonEmpty /\ AllStrText) =>
        /\ passed <=> \A i \in 1..Len(file.data.items) :
                         Contains(TextAt(i), InstCloseTag)
        /\ \A k \in 1..Len(errors) :
              /\ errors[k].msg = "Missing instruction closing tag"
              /\ ~Contains(TextAt(errors[k].item + 1), InstCloseTag)
        /\ \A i \in 1..Len(file.data.items) :
              /\ ~startswith(TextAt(i), InstOpenTag) =>
                    Msg(i, "Does not start with Mistral instruction tag") \in Range(warnings)
              /\ ~endswith(TextAt(i), EndTag) =>
                    Msg(i, "Does not end with closing tag") \in Range(warnings)
              /\ Len(TextAt(i)) < TooShort => Msg(i, "Text too short") \in Range(warnings)
              /\ Len(TextAt(i)) > TooLong => Msg(i, "Text very long") \in Range(warnings)

C19_Witness ==
    /\ v_pc = "returned"
    /\ LoadedNonEmpty
    /\ AllStrText
    /\ passed
    /\ \E i \in 1..Len(file.data.items) :
          ~startswith(TextAt(i), InstOpenTag) /\ ~endswith(TextAt(i), EndTag)
    /\ \E i \in 1..Len(file.data.items) : Len(TextAt(i)) > TooLong

\* C28: a record rejected for missing fields, an invalid URL or a past
\* deadline does not cause a later record to be lost: a later record of the
\* same run with the same company, title and location that passes the three
\* gates, and whose key matches no accepted record before it, is accepted.
C28_RejectedDoesNotShadow ==
    FreshRun =>
        \A i, j \in Processed :
            ( /\ i < j
              /\ log[i].outcome \in {"missing_fields", "invalid_url", "expired"}
              /\ SameRawFields(jobs[i], jobs[j])
              /\ PassesOtherGates(j)
              /\ \A k \in 1..(j - 1) : log[k].outcome = "valid" => Fp(k) # Fp(j) )
            => log[j].outcome = "valid"

\* the positions of the accepted records, in input order
RECURSIVE AcceptedUpTo(_)
AcceptedUpTo(n) ==
    IF n = 0 THEN <<>>
    ELSE IF log[n].outcome = "valid" THEN Append(AcceptedUpTo(n - 1), n)
    ELSE AcceptedUpTo(n - 1)

\* C29: the output of clean_jobs is an order-preserving subsequence of the
\* input: the accepted records, each once, in their input order, normalized;
\* its length is the valid counter.
C29_OutputIsSubsequence ==
    pc \in {"loop", "done"} =>
        LET acc == AcceptedUpTo(Len(log)) IN
        /\ Len(cleaned_jobs) = stats.valid
        /\ Len(cleaned_jobs) = Len(acc)
        /\ \A k \in 1..Len(acc) :
              cleaned_jobs[k] = normalize_job(jobs[acc[k]], log[acc[k]].now)

C29_Witness ==
    /\ pc = "done"
    /\ Len(log) = 3
    /\ log[1].outcome = "valid"
    /\ log[2].outcome # "valid"
    /\ log[3].outcome = "valid"
    /\ cleaned_jobs[1] # cleaned_jobs[2]

(***************************************************************************)
(* Properties of clean_jobs on records of any value types                  *)
(***************************************************************************)
\* C15: no exception propagates out of clean_jobs, for any sequence of
\* mapping records, whatever the types of their field values (and none out
\* of validate_dataset, whose every exception path ends in a returned
\* tuple): every failure is returned as data or as exclusion of the item.
C15_NoExceptionEscapes ==
    pc # "raised"

\* C18: clean_jobs does not modify its input: from the entry of the call to
\* its return every input record keeps its keys and values, and the cleaned
\* output is a separate copy that carries the added cleaned_time.
C18_InputUnmodified ==
    [][ pc = "loop" =>
          /\ jobs' = jobs
          /\ \A i \in 1..Len(jobs') : "cleaned_time" \notin DOMAIN jobs'[i]
          /\ \A k \in 1..Len(cleaned_jobs') : "cleaned_time" \in DOMAIN cleaned_jobs'[k] ]_vars

C18_Witness ==
    /\ pc = "done"
    /\ \E i \in 1..Len(jobs) :
          /\ log[i].outcome = "valid"
          /\ normalize_job(jobs[i], log[i].now) \in Range(cleaned_jobs)
          /\ normalize_job(jobs[i], log[i].now).company_name # jobs[i].company_name

(***************************************************************************)
(* _is_expired applied to one deadline at one instant                      *)
(***************************************************************************)
Deadlines ==
    {EmptyDeadline, [layout |-> "text", t |-> 0], [layout |-> "int", t |-> 0]}
    \cup {[layout |-> date_formats[k], t |-> t] :
            k \in 1..Len(date_formats), t \in 0..(MaxClock + 1)}

InitExpiry ==
    /\ InitCleaner
    /\ InitBuilder
    /\ InitSplit
    /\ InitValidator
    /\ InitCrawler
    /\ call \in [deadline : Deadlines, now : 0..(MaxClock + 1)]
    /\ ret = [done |-> FALSE, value |-> FALSE]

CallIsExpired ==
    /\ ~ret.done
    /\ ret' = [done |-> TRUE, value |-> is_expired(call.deadline, call.now)]
    /\ UNCHANGED <<call, cleanerVars, builderVars, splitVars, validatorVars, crawlerVars>>

ExpirySpec == InitExpiry /\ [][CallIsExpired]_vars

\* C20: _is_expired answers true exactly when the deadline parses under one
\* of the four formats and the parsed time is strictly before the current
\* time; an absent, empty or unparseable deadline and a deadline that is
\* not text give false, and no error is raised.
C20_ExpiredIffParsedAndPast ==
    ret.done =>
        /\ ret.value \in BOOLEAN
        /\ ret.value <=>
              /\ \E k \in 1..Len(date_formats) : call.deadline.layout = date_formats[k]
              /\ call.deadline.t < call.now

C20_Witness ==
    /\ ret.done
    /\ ret.value
    /\ call.deadline.layout = "%Y/%m/%d %H:%M:%S"
    /\ call.deadline.t + 1 = call.now

(***************************************************************************)
(* _normalize_job applied to a record, and again to its result             *)
(***************************************************************************)
NormCompanies == {<<" ", " ", "a", "\t", "nbsp", "b", " ">>, <<"a", "ideographic_space">>,
                  <<"int", "5">>}

NormEducations == {
    <<"ben", "ke", "ji", "yi", "shang">>, <<" ", "da", "zhuan">>, <<"P", "h", "D">>,
    <<"yan", "jiu", "sheng", "ji", "yi", "shang">>, <<"zhuan", "ke">>,
    <<"bu", "xian">>, <<"M", "B", "A">>, <<"int", "3">>, <<>>,
    <<"ben", "ke", "sheng">>, <<"shuo", "shi", " ">>, <<"bo", "shi">>,
    <<"ben", "ke", "ji", "yi", "shang", "huo", "da", "zhuan">> }

NormLocations == {
    <<"bei", "jing", "shi_city">>, <<" ", "shang", "hai", " ", " ", "bei", "jing">>,
    <<"a", "nbsp", " ", "b">>, <<"int", "0">>, <<>> }

\* records with and without the optional keys education and location
NormJobs ==
    [company_name : NormCompanies, job_title : {<<"c">>}]
    \cup [company_name : NormCompanies, education : NormEducations]
    \cup [company_name : NormCompanies, location : NormLocations]
    \cup [company_name : {<<"a">>}, education : NormEducations, location : NormLocations]

InitNorm ==
    /\ InitCleaner
    /\ InitBuilder
    /\ InitSplit
    /\ InitValidator
    /\ InitCrawler
    /\ call \in [job : NormJobs, now : 1..MaxClock, again : 1..MaxClock]
    /\ ret = <<>>

\* cleaned = _normalize_job(job), then _normalize_job(cleaned)
CallNormalizeTwice ==
    /\ ret = <<>>
    /\ LET once == normalize_job(call.job, call.now)
       IN ret' = <<once, normalize_job(once, call.again)>>
    /\ UNCHANGED <<call, cleanerVars, builderVars, splitVars, validatorVars, crawlerVars>>

NormSpec == InitNorm /\ [][CallNormalizeTwice]_vars

\* C17: normalizing a normalized record changes no field but cleaned_time:
\* the two results have the same keys and, cleaned_time apart, the same
\* values; cleaned text, education and location are fixed points of
\* _clean_text, _normalize_education and _normalize_location.
C17_NormalizeIdempotent ==
    ret # <<>> =>
        /\ DOMAIN ret[2] = DOMAIN ret[1]
        /\ \A f \in DOMAIN ret[1] \ {"cleaned_time"} : ret[2][f] = ret[1][f]
        /\ \A f \in DOMAIN ret[1] \cap text_fields : clean_text(ret[1][f]) = ret[1][f]
        /\ "education" \in DOMAIN ret[1] =>
              normalize_education(ret[1].education) = ret[1].education
        /\ "location" \in DOMAIN ret[1] =>
              normalize_location(ret[1].location) = ret[1].location

C17_Witness ==
    /\ ret # <<>>
    /\ ret[2].cleaned_time # ret[1].cleaned_time
    /\ "education" \in DOMAIN call.job
    /\ "location" \in DOMAIN call.job
    /\ ret[1].education # call.job.education
    /\ ret[1].location # call.job.location

(***************************************************************************)
(* MISTRAL_PROMPT_TEMPLATE applied to one instruction and one response     *)
(***************************************************************************)
\* texts an annotation can hold: plain text, braces, whole tags, parts of tags
TemplateTexts == {
    <<>>, <<"a">>, <<"a", " ", "b">>, <<" ">>, <<"{", "}">>, <<"[", "/">>, <<"]">>,
    InstOpenTag, EndTag, InstCloseTag,
    <<"a", " ">> \o InstCloseTag \o <<" ", "b">> }

InitTemplate ==
    /\ InitCleaner
    /\ InitBuilder
    /\ InitSplit
    /\ InitValidator
    /\ InitCrawler
    /\ call \in [instruction : TemplateTexts, response : TemplateTexts]
    /\ ret = [done |-> FALSE, text |-> <<>>]

CallTemplate ==
    /\ ~ret.done
    /\ ret' = [done |-> TRUE,
               text |-> MISTRAL_PROMPT_TEMPLATE(call.instruction, call.response)]
    /\ UNCHANGED <<call, cleanerVars, builderVars, splitVars, validatorVars, crawlerVars>>

TemplateSpec == InitTemplate /\ [][CallTemplate]_vars

\* the text between "<s>[INST] " and the first " [/INST] ", and the text from
\* there to the final "</s>"
SplitAtTags(text) ==
    LET close == <<" ">> \o InstCloseTag \o <<" ">>
        first == Max({0} \cup {i \in occurrences(text, close) :
                                 \A j \in occurrences(text, close) : i <= j})
        lead == Len(InstOpenTag) + 1
    IN [instruction |-> SubSeq(text, lead + 1, first - 1),
        response |-> SubSeq(text, first + Len(close), Len(text) - Len(EndTag))]

\* C16: for any instruction and response, the rendered text contains
\* "[/INST]" exactly once, and splitting the text at the tags gives back the
\* instruction and the response.
C16_TemplateRoundTrip ==
    ret.done =>
        /\ Cardinality(occurrences(ret.text, InstCloseTag)) = 1
        /\ SplitAtTags(ret.text) = [instruction |-> call.instruction,
                                    response |-> call.response]

(***************************************************************************)
(* _build_input_parsing_samples applied to one annotation                  *)
(***************************************************************************)
\* the number of keys of a structured_params mapping
MaxParams == 3

\* mappings of up to MaxParams of the six fields, in every insertion order
ParamDicts ==
    {p \in UNION {[1..n -> {<<f, ParamValue(f)>> : f \in Range(ParamFields)}] :
                    n \in 0..MaxParams} :
        \A i, j \in DOMAIN p : i # j => p[i][1] # p[j][1]}

InitParse ==
    /\ InitCleaner
    /\ InitBuilder
    /\ InitSplit
    /\ InitValidator
    /\ InitCrawler
    /\ call \in [user_input : {<<"x">>}, structured_params : ParamDicts]
    /\ ret = [done |-> FALSE, samples |-> <<>>]

CallBuildInputParsing ==
    /\ ~ret.done
    /\ ret' = [done |-> TRUE,
               samples |-> build_input_parsing_samples(
                   <<ParsingAnnotation(call.user_input, call.structured_params)>>)]
    /\ UNCHANGED <<call, cleanerVars, builderVars, splitVars, validatorVars, crawlerVars>>

ParseSpec == InitParse /\ [][CallBuildInputParsing]_vars

\* the field names a response holds, in the order it holds them
ResponseFields(text) ==
    SelectSeq(SplitAtTags(text).response, LAMBDA c : c \in Range(ParamFields))

\* C23: the input parsing builder serializes the structured parameters in
\* the field order major, education, target_company_type, location,
\* job_type, position, whatever the key order of the input mapping.
C23_StableFieldOrder ==
    ret.done =>
        ResponseFields(ret.samples[1].text)
            = SelectSeq(ParamFields,
                        LAMBDA f : \E k \in DOMAIN call.structured_params :
                                        call.structured_params[k][1] = f)

(***************************************************************************)
(* _build_job_matching_samples applied to one annotation                   *)
(***************************************************************************)
\* the number of jobs of a job matching annotation
MaxMatchJobs == 6

\* match scores, in tenths
Scores == {1, 5, 9}

ScoreSeqs == UNION {[1..n -> Scores] : n \in 0..MaxMatchJobs}

InitMatch ==
    /\ InitCleaner
    /\ InitBuilder
    /\ InitSplit
    /\ InitValidator
    /\ InitCrawler
    /\ call \in {MatchingAnnotation(scores) : scores \in ScoreSeqs}
    /\ ret = [done |-> FALSE, response_data |-> <<>>, samples |-> <<>>]

CallBuildJobMatching ==
    /\ ~ret.done
    /\ ret' = [done |-> TRUE,
               response_data |-> response_data(call.jobs),
               samples |-> build_job_matching_samples(<<call>>)]
    /\ UNCHANGED <<call, cleanerVars, builderVars, splitVars, validatorVars, crawlerVars>>

MatchSpec == InitMatch /\ [][CallBuildJobMatching]_vars

\* the place of job i in the ranking: one more than the number of jobs that
\* score higher or score the same and come earlier
RankOf(i) ==
    1 + Cardinality({j \in DOMAIN call.jobs :
            \/ call.jobs[j].match_score > call.jobs[i].match_score
            \/ call.jobs[j].match_score = call.jobs[i].match_score /\ j < i})

\* the lines of a text, each without the line feed that ends it
LinesOf(text) ==
    LET ends == {i \in DOMAIN text : text[i] = "\n"}
        begin(e) == Max({0} \cup {i \in ends : i < e}) + 1
        ordered == SelectSeq([i \in DOMAIN text |-> i], LAMBDA i : i \in ends)
    IN [k \in DOMAIN ordered |-> SubSeq(text, begin(ordered[k]), ordered[k] - 1)]

\* the candidate list of the instruction: the lines that follow the heading
\* of the list, as many as there are jobs, and the line after them
CandidateLines(text) ==
    LET all == LinesOf(SplitAtTags(text).instruction)
        head == CHOOSE k \in DOMAIN all : all[k] = <<"houxuan_gangwei", ":">>
    IN SubSeq(all, head + 1, head + Len(call.jobs) + 1)

\* C22: the response of a job matching sample lists min(5, n) entries, the
\* jobs with the highest match_score in descending order of score, jobs of
\* equal score in their original order, ranked 1..k; the instruction lists
\* all n jobs in their original order, numbered from 1.
C22_TopFiveStable ==
    ret.done =>
        LET n == Len(call.jobs)
            text == ret.samples[1].text
        IN /\ Len(ret.response_data) = Min(5, n)
           /\ \A k \in DOMAIN ret.response_data :
                /\ ret.response_data[k].rank = k
                /\ \E i \in DOMAIN call.jobs :
                     /\ RankOf(i) = k
                     /\ ret.response_data[k].company = call.jobs[i].job.company_name
                     /\ ret.response_data[k].position = call.jobs[i].job.job_title
                     /\ ret.response_data[k].location = call.jobs[i].job.location
                     /\ ret.response_data[k].match_score = call.jobs[i].match_score
                     /\ ret.response_data[k].reason = call.jobs[i].reason
           /\ SplitAtTags(text).response = dumps_response(ret.response_data)
           /\ \A i \in DOMAIN call.jobs :
                CandidateLines(text)[i]
                    = int_text(i) \o <<".", " ">> \o call.jobs[i].job.company_name
                      \o <<" ", "-", " ">> \o call.jobs[i].job.job_title
                      \o <<" ", "(">> \o call.jobs[i].job.location \o <<")">>
           /\ CandidateLines(text)[n + 1] = <<>>

\* more than five jobs, with equal scores among the listed and a job that is
\* left out although it scores the same as a listed one
C22_Witness ==
    /\ ret.done
    /\ Len(call.jobs) > 5
    /\ \E i, j \in DOMAIN call.jobs :
          /\ i < j
          /\ call.jobs[i].match_score = call.jobs[j].match_score
          /\ RankOf(i) <= 5
          /\ RankOf(j) > 5
    /\ \E i, j \in DOMAIN call.jobs :
          /\ i < j
          /\ call.jobs[i].match_score < call.jobs[j].match_score

(***************************************************************************)
(* save_datasets and the files it leaves, and validate_dataset applied to  *)
(* one of them.  A path is the sequence of its components; every path      *)
(* ends in ".jsonl".                                                       *)
(***************************************************************************)
\* the default arguments of save_datasets, and paths without a directory
DefaultPaths == [train |-> <<".", "data", "train.jsonl">>,
                 eval |-> <<".", "data", "eval.jsonl">>,
                 test |-> <<".", "data", "test.jsonl">>]
BarePaths == [train |-> <<"train.jsonl">>, eval |-> <<"eval.jsonl">>,
              test |-> <<"test.jsonl">>]

PathArgs == {DefaultPaths, BarePaths}

\* json.dumps(item, ensure_ascii=False) + "\n" for an item {"text": ...}
jsonl_line(item) ==
    <<"{">> \o json_str(<<"text">>) \o <<":", " ">> \o json_str(item.text)
    \o <<"}", "\n">>

\* _save_jsonl: os.makedirs raises on the empty directory name of a bare
\* path, before the file is opened; a write raises on the first item whose
\* text cannot be encoded as UTF-8, after the lines before it were written;
\* both are caught and logged, and nothing is raised
save_jsonl(files, items, filepath) ==
    IF Len(filepath) = 1 THEN files
    ELSE LET bad == {i \in DOMAIN items : ~encodable(items[i].text)}
             n == IF bad = {} THEN Len(items)
                  ELSE (CHOOSE i \in bad : \A j \in bad : i <= j) - 1
         IN [files EXCEPT ![filepath] =
                [exists |-> TRUE,
                 content |-> join(<<>>, [i \in 1..n |-> jsonl_line(items[i])])]]

\* save_datasets
save_datasets(paths) ==
    /\ built
    /\ ~saved
    /\ disk' = save_jsonl(save_jsonl(save_jsonl(disk, train_data, paths.train),
                                     eval_data, paths.eval),
                          test_data, paths.test)
    /\ saved' = TRUE
    /\ UNCHANGED <<annotations, ratios, all_samples, train_data, eval_data,
                   test_data, built>>

\* the text a JSON string literal denotes, without its quotes: a backslash
\* that follows an even number of backslashes opens an escape, and the
\* character after it is the escaped one
json_unescape(t) ==
    LET before(i) == i - 1 - Max({0} \cup {j \in 1..(i - 1) : t[j] # "\\"})
        opens == {i \in DOMAIN t : t[i] = "\\" /\ before(i) % 2 = 0}
        kept == SelectSeq([i \in DOMAIN t |-> i], LAMBDA i : i \notin opens)
    IN [k \in DOMAIN kept |->
            IF kept[k] - 1 \in opens /\ t[kept[k]] = "n" THEN "\n"
            ELSE t[kept[k]]]

\* json.loads(line) for a line that holds an object with the one key "text"
json_loads(line) ==
    LET lead == <<"{">> \o json_str(<<"text">>) \o <<":", " ", "\"">>
        tail == <<"\"", "}">>
    IN DictItem(StrV(json_unescape(
           SubSeq(line, Len(lead) + 1, Len(line) - Len(tail)))))

\* what validate_dataset finds at a path: open() fails on a file that does
\* not exist, and a .jsonl file is one JSON value per line
read_jsonl(files, part, filepath) ==
    [opens |-> files[filepath].exists,
     data |-> ListData([k \in DOMAIN LinesOf(files[filepath].content) |->
                            json_loads(LinesOf(files[filepath].content)[k])]),
     partition |-> part,
     path |-> filepath]

Partitions == {"train", "eval", "test"}

\* self.train_data, self.eval_data or self.test_data
partition_data(name) ==
    CASE name = "train" -> train_data
      [] name = "eval" -> eval_data
      [] OTHER -> test_data

\* build_from_annotations, then save_datasets, then validate_dataset on one
\* of the paths given to save_datasets
NextPipeline ==
    \/ /\ \E anns \in AnnSeqs, r \in {<<Ratio(8, 10), Ratio(1, 10)>>,
                                      <<Ratio(1, 2), Ratio(1, 2)>>} :
            build_from_annotations(anns, r[1], r[2])
       /\ UNCHANGED <<cleanerVars, splitVars, validatorVars, callVars, crawlerVars>>
    \/ /\ \E paths \in PathArgs : save_datasets(paths) /\ call' = paths
       /\ UNCHANGED <<cleanerVars, splitVars, validatorVars, ret, crawlerVars>>
    \/ /\ saved
       /\ \E p \in Partitions : ValidateStart(read_jsonl(disk, p, call[p]))
       /\ UNCHANGED <<cleanerVars, builderVars, splitVars, callVars, crawlerVars>>
    \/ Load /\ UNCHANGED <<cleanerVars, builderVars, splitVars, callVars, crawlerVars>>
    \/ CheckFormat /\ UNCHANGED <<cleanerVars, builderVars, splitVars, callVars, crawlerVars>>
    \/ CheckCompleteness /\ UNCHANGED <<cleanerVars, builderVars, splitVars, callVars, crawlerVars>>
    \/ CheckContentQuality /\ UNCHANGED <<cleanerVars, builderVars, splitVars, callVars, crawlerVars>>
    \/ CheckStatistics /\ UNCHANGED <<cleanerVars, builderVars, splitVars, callVars, crawlerVars>>
    \/ ValidateReturn /\ UNCHANGED <<cleanerVars, builderVars, splitVars, callVars, crawlerVars>>

PipelineSpec == Init /\ [][NextPipeline]_vars

\* validate_dataset has returned for a partition whose file save_datasets
\* wrote
ValidatedWritten ==
    /\ saved
    /\ v_pc = "returned"
    /\ disk[file.path].exists

\* C30: every sample the three builders make is a mapping whose text is a
\* string that starts with "<s>[INST]", contains "[/INST]" and ends with
\* "</s>"; so validating any non-empty partition written by save_datasets
\* returns passed = true, while validating an empty partition returns
\* passed = false with the single error that the dataset is empty.
C30_WrittenPartitionsValidate ==
    /\ \A i \in DOMAIN all_samples :
          /\ startswith(all_samples[i].text, InstOpenTag)
          /\ Contains(all_samples[i].text, InstCloseTag)
          /\ endswith(all_samples[i].text, EndTag)
    /\ ValidatedWritten =>
          IF partition_data(file.partition) # <<>>
          THEN passed
          ELSE ~passed /\ errors = <<EmptyDataset>>

(***************************************************************************)
(* CrawlerUtils.safe_request.  One step is one pass of the retry loop; the *)
(* log holds what the call did, in order: the sleeps with their delay and  *)
(* the HTTP requests with what came of them.                               *)
(***************************************************************************)
\* the largest max_retries a CrawlerUtils is constructed with
MaxRetries == 3

\* the number of entries of a page the server answers at most
MaxPageItems == 2

\* an entry of "data": a mapping, or a value that is no mapping
PageItems == {[dict |-> TRUE, id |-> 1], [dict |-> FALSE, id |-> 0]}

Bodies ==
    {NoBody, [NoBody EXCEPT !.json = TRUE]}
    \cup {[json |-> TRUE, has_data |-> TRUE, items |-> its, paging |-> p] :
            its \in UNION {[1..n -> PageItems] : n \in 0..MaxPageItems},
            p \in {"absent", "end", "more"}}

\* the response of a request
Response(body) == [none |-> FALSE, body |-> body]

Sleep(delay) == [ev |-> "sleep", delay |-> delay, outcome |-> "", body |-> NoBody]
Request(result, body) == [ev |-> "request", delay |-> 0, outcome |-> result, body |-> body]

\* random.uniform(*self.request_interval): a delay between the two ends
uniform(interval) == {interval[1], interval[2]}

\* what a request comes to: a response that raise_for_status accepts, one it
\* raises HTTPError for, a RequestException raised by requests.request, or
\* an exception that is no RequestException
Outcomes == {"ok", "http_error", "request_error", "other_error"}

retry_delay_never(att, delay) == <<>>

\* lines 88-91: the sleep before a retry
retry_delay(att, delay) == IF att > 0 THEN <<Sleep(delay)>> ELSE <<>>

\* lines 78-85: the call, up to the loop
SafeRequestStart ==
    /\ sr_pc = "idle"
    /\ sr_pc' = "loop"
    /\ attempt' = 0
    /\ sr_log' = <<>>
    /\ sr_ret' = NoResponse
    /\ UNCHANGED <<request_interval, max_retries>>

\* lines 85-105: one pass of "for attempt in range(self.max_retries)"
Attempt(result, body, before, after) ==
    /\ sr_pc = "loop"
    /\ attempt < max_retries
    /\ LET waited == sr_log \o retry_delay(attempt, before) IN
       CASE result = "ok" ->
              /\ sr_log' = waited \o <<Request(result, body), Sleep(after)>>
              /\ sr_ret' = Response(body)
              /\ sr_pc' = "returned"
              /\ UNCHANGED attempt
         [] result = "other_error" ->
              /\ sr_log' = Append(waited, Request(result, NoBody))
              /\ sr_pc' = "raised"
              /\ UNCHANGED <<sr_ret, attempt>>
         [] OTHER ->
              /\ sr_log' = Append(waited, Request(result, NoBody))
              /\ IF attempt = max_retries - 1
                 THEN /\ sr_ret' = NoResponse
                      /\ sr_pc' = "returned"
                      /\ UNCHANGED attempt
                 ELSE /\ attempt' = attempt + 1
                      /\ UNCHANGED <<sr_ret, sr_pc>>
    /\ UNCHANGED <<request_interval, max_retries>>

\* line 107: the loop ran out, which it does when max_retries is 0
Exhausted ==
    /\ sr_pc = "loop"
    /\ attempt >= max_retries
    /\ sr_ret' = NoResponse
    /\ sr_pc' = "returned"
    /\ UNCHANGED <<request_interval, max_retries, attempt, sr_log>>

\* one pass of the loop, with what the server and the random source give
SafeRequestStep ==
    \/ \E result \in Outcomes, body \in Bodies,
          before \in uniform(request_interval), after \in uniform(request_interval) :
            /\ result # "ok" => body = NoBody /\ after = request_interval[1]
            /\ attempt = 0 => before = request_interval[1]
            /\ Attempt(result, body, before, after)
    \/ Exhausted

(***************************************************************************)
(* ZhihuCrawler.crawl_topic_answers and crawl_search_results.  The text    *)
(* fields of a parsed entry are left out; an entry is known by its id.     *)
(***************************************************************************)
\* the largest limit argument
MaxLimit == 2

\* the number of pages a call is followed for
MaxPages == 3

\* page_size
PageSize == 20

None == [none |-> TRUE, type |-> "", id |-> 0]

\* _parse_answer: item.get raises on a value that is no mapping, which is
\* caught and gives None
parse_answer(item) ==
    IF item.dict THEN [none |-> FALSE, type |-> "answer", id |-> item.id] ELSE None

\* _parse_search_result
parse_search_result(item) ==
    IF item.dict THEN [none |-> FALSE, type |-> "search", id |-> item.id] ELSE None

\* the entries a "for item in items" loop appends
parsed_items(crawl, items) ==
    SelectSeq([i \in DOMAIN items |->
                  IF crawl = "topic" THEN parse_answer(items[i])
                  ELSE parse_search_result(items[i])],
              LAMBDA r : ~r.none)

\* data.get("paging", {}).get("is_end", True)
is_end(body) == body.paging # "more"

\* lines 43-47 and 101-105
CrawlStart(crawl, lim) ==
    /\ c_pc = "idle"
    /\ c_kind' = crawl
    /\ limit' = lim
    /\ all_results' = <<>>
    /\ offset' = 0
    /\ requested' = <<>>
    /\ handled' = <<>>
    /\ c_pc' = "loop"
    /\ UNCHANGED <<collected_content, requestVars>>

\* lines 49-58 and 107-116: the loop test and the call of safe_request
CrawlRequest ==
    /\ c_pc = "loop"
    /\ Len(all_results) < limit
    /\ Len(requested) < MaxPages
    /\ SafeRequestStart
    /\ requested' = Append(requested, offset)
    /\ c_pc' = "fetch"
    /\ UNCHANGED <<c_kind, limit, all_results, offset, handled, collected_content>>

\* the loop test fails
CrawlLoopEnd ==
    /\ c_pc = "loop"
    /\ Len(all_results) >= limit
    /\ c_pc' = "finish"
    /\ UNCHANGED <<c_kind, limit, all_results, offset, requested, handled,
                   collected_content, requestVars>>

\* safe_request at work
CrawlFetch ==
    /\ c_pc = "fetch"
    /\ SafeRequestStep
    /\ UNCHANGED crawlVars

\* an exception of safe_request leaves the crawl
CrawlRaise ==
    /\ c_pc = "fetch"
    /\ sr_pc = "raised"
    /\ c_pc' = "raised"
    /\ sr_pc' = "idle"
    /\ UNCHANGED <<c_kind, limit, all_results, offset, requested, handled,
                   collected_content, request_interval, max_retries, attempt,
                   sr_log, sr_ret>>

\* lines 59-78 and 117-133: the rest of the pass, from the response on
CrawlPage ==
    /\ c_pc = "fetch"
    /\ sr_pc = "returned"
    /\ sr_pc' = "idle"
    /\ UNCHANGED <<request_interval, max_retries, attempt, sr_log, sr_ret>>
    /\ IF sr_ret.none \/ ~sr_ret.body.json \/ ~sr_ret.body.has_data
          \/ sr_ret.body.items = <<>>
       THEN /\ c_pc' = "finish"
            /\ UNCHANGED <<all_results, offset, handled>>
       ELSE /\ all_results' = all_results \o parsed_items(c_kind, sr_ret.body.items)
            /\ offset' = offset + PageSize
            /\ handled' = Append(handled, [offset |-> offset,
                                           is_end |-> is_end(sr_ret.body)])
            /\ c_pc' = IF c_kind = "topic" /\ ~is_end(sr_ret.body)
                       THEN "finish" ELSE "loop"
    /\ UNCHANGED <<c_kind, limit, requested, collected_content>>

\* lines 80-82 and 135-137
CrawlReturn ==
    /\ c_pc = "finish"
    /\ collected_content' = collected_content \o all_results
    /\ c_pc' = "returned"
    /\ UNCHANGED <<c_kind, limit, all_results, offset, requested, handled,
                   requestVars>>

NextCrawl ==
    \/ /\ \E crawl \in {"topic", "search"}, lim \in 0..MaxLimit : CrawlStart(crawl, lim)
       /\ UNCHANGED <<cleanerVars, builderVars, splitVars, validatorVars, callVars>>
    \/ CrawlRequest /\ UNCHANGED <<cleanerVars, builderVars, splitVars, validatorVars, callVars>>
    \/ CrawlLoopEnd /\ UNCHANGED <<cleanerVars, builderVars, splitVars, validatorVars, callVars>>
    \/ CrawlFetch /\ UNCHANGED <<cleanerVars, builderVars, splitVars, validatorVars, callVars>>
    \/ CrawlRaise /\ UNCHANGED <<cleanerVars, builderVars, splitVars, validatorVars, callVars>>
    \/ CrawlPage /\ UNCHANGED <<cleanerVars, builderVars, splitVars, validatorVars, callVars>>
    \/ CrawlReturn /\ UNCHANGED <<cleanerVars, builderVars, splitVars, validatorVars, callVars>>

CrawlSpec == Init /\ [][NextCrawl]_vars

\* one safe_request call on a CrawlerUtils of any retry count
InitRequestSpec ==
    /\ InitCleaner
    /\ InitBuilder
    /\ InitSplit
    /\ InitValidator
    /\ InitCall
    /\ \E interval \in {<<2, 5>>, <<3, 6>>}, retries \in 0..MaxRetries :
            InitRequest(interval, retries)
    /\ c_pc = "idle"
    /\ c_kind = ""
    /\ limit = 0
    /\ all_results = <<>>
    /\ offset = 0
    /\ requested = <<>>
    /\ handled = <<>>
    /\ collected_content = <<>>

NextRequest ==
    \/ /\ SafeRequestStart
       /\ UNCHANGED <<crawlVars, cleanerVars, builderVars, splitVars, validatorVars, callVars>>
    \/ /\ SafeRequestStep
       /\ UNCHANGED <<crawlVars, cleanerVars, builderVars, splitVars, validatorVars, callVars>>

RequestSpec == InitRequestSpec /\ [][NextRequest]_vars

\* the places of the HTTP requests in the log
RequestsSent == {i \in DOMAIN sr_log : sr_log[i].ev = "request"}

\* C25: safe_request issues at most max_retries HTTP requests, returns the
\* response of the first request that succeeds without issuing any further
\* request, waits a randomized delay before each retry, and returns None
\* exactly when all max_retries attempts failed with a request error.
C25_BoundedRetries ==
    /\ Cardinality(RequestsSent) <= max_retries
    /\ \A i \in RequestsSent :
          sr_log[i].outcome = "ok" =>
              /\ sr_pc = "returned"
              /\ sr_ret = Response(sr_log[i].body)
              /\ \A j \in RequestsSent : j <= i
    /\ \A i \in RequestsSent :
          IF \E j \in RequestsSent : j < i
          THEN /\ sr_log[i - 1].ev = "sleep"
               /\ sr_log[i - 1].delay >= request_interval[1]
               /\ sr_log[i - 1].delay <= request_interval[2]
          ELSE i = 1
    /\ sr_pc = "returned" =>
          (sr_ret = NoResponse <=>
              /\ Cardinality(RequestsSent) = max_retries
              /\ \A i \in RequestsSent :
                    sr_log[i].outcome \in {"http_error", "request_error"})

\* a response returned by a retry, after a request error and an HTTP error
C25_Witness ==
    /\ sr_pc = "returned"
    /\ sr_ret # NoResponse
    /\ Cardinality(RequestsSent) = max_retries
    /\ \E i, j \in RequestsSent :
          sr_log[i].outcome = "request_error" /\ sr_log[j].outcome = "http_error"

\* C26: crawl_topic_answers and crawl_search_results return at most limit
\* items, for any sequence of server pages.
C26_AtMostLimit ==
    c_pc = "returned" => Len(all_results) <= limit

\* C27: crawl_topic_answers requests the next page after a page whose
\* paging.is_end is false, while fewer than limit answers are collected, and
\* requests no further page after a page whose paging.is_end is true.
C27_PagesUntilEnd ==
    c_kind = "topic" =>
        /\ \A k \in DOMAIN handled :
              handled[k].is_end =>
                  \A r \in DOMAIN requested : requested[r] <= handled[k].offset
        /\ (c_pc \in {"finish", "returned"} /\ handled # <<>>
               /\ ~handled[Len(handled)].is_end /\ Len(all_results) < limit)
              => \E r \in DOMAIN requested :
                    requested[r] = handled[Len(handled)].offset + PageSize

\* the five canonical education values
CanonicalEducations == {<<"bu", "xian">>, <<"zhuan", "ke">>, <<"ben", "ke">>,
                        <<"shuo", "shi">>, <<"bo", "shi">>}

\* the positions of the edu_mapping keys that occur in a text
KeysIn(e) == {k \in 1..Len(edu_mapping) : Contains(e, edu_mapping[k][1])}

HasEducation == ret # <<>> /\ "education" \in DOMAIN call.job

\* the education value after _clean_text
CleanedEducation == clean_text(call.job.education)

\* C21 (as claimed): the normalized education is one of the five canonical
\* values; a canonical value is kept, a value containing a table key is
\* mapped to that key's canonical value, and anything else becomes bu xian.
C21_EveryKeyDecides ==
    HasEducation =>
        /\ ret[1].education \in CanonicalEducations
        /\ CleanedEducation \in CanonicalEducations => ret[1].education = CleanedEducation
        /\ \A k \in KeysIn(CleanedEducation) : ret[1].education = edu_mapping[k][2]
        /\ (KeysIn(CleanedEducation) = {} /\ CleanedEducation \notin CanonicalEducations)
              => ret[1].education = <<"bu", "xian">>

\* C21 (amended): as above, but a value containing table keys is mapped to
\* the canonical value of the first key, in table order, that it contains.
C21_FirstKeyDecides ==
    HasEducation =>
        /\ ret[1].education \in CanonicalEducations
        /\ CleanedEducation \in CanonicalEducations => ret[1].education = CleanedEducation
        /\ \A k \in KeysIn(CleanedEducation) :
              (\A j \in KeysIn(CleanedEducation) : k <= j)
                  => ret[1].education = edu_mapping[k][2]
        /\ (KeysIn(CleanedEducation) = {} /\ CleanedEducation \notin CanonicalEducations)
              => ret[1].education = <<"bu", "xian">>

C21_Witness ==
    /\ HasEducation
    /\ \E j, k \in KeysIn(CleanedEducation) :
          /\ j < k
          /\ edu_mapping[j][2] # edu_mapping[k][2]
          /\ ret[1].education = edu_mapping[j][2]

\* _check_content_quality ran to its end
QualityCheckRan == \E k \in 1..Len(ran) : ran[k].check = "quality" /\ ran[k].completed

\* the sum of the three keyword counts
KeywordTotal == keyword_count(data, 1) + keyword_count(data, 2) + keyword_count(data, 3)

\* C24: on every dataset on which the quality check runs, every task
\* category whose share of the total is below 15% gets an
\* under-representation warning, also when a category, or every category,
\* has no matching sample.
C24_UnderrepresentedWarned ==
    QualityCheckRan =>
        \A k \in 1..Len(task_keywords) :
            (KeywordTotal = 0 \/ keyword_count(data, k) * 100 < 15 * KeywordTotal)
                => [item |-> -1, msg |-> task_keywords[k].warning] \in Range(warnings)

(***************************************************************************)
(* Properties of the split                                                 *)
(***************************************************************************)
\* train_ratio + eval_ratio <= 1, both ratios being non-negative
ValidRatios(train_ratio, eval_ratio) ==
    train_ratio.num * eval_ratio.den + eval_ratio.num * train_ratio.den
        <= train_ratio.den * eval_ratio.den

\* C9: after build_from_annotations with ratios summing to at most 1, the
\* three partitions are contiguous pieces of the shuffled samples that
\* together are exactly that sequence, every sample in exactly one of them.
C9_SplitComplete ==
    (built /\ ValidRatios(ratios[1], ratios[2])) =>
        /\ Len(all_samples) = Len(build_all_samples(annotations))
        /\ Len(train_data) + Len(eval_data) + Len(test_data) = Len(all_samples)
        /\ train_data \o eval_data \o test_data = all_samples

C9_Witness ==
    /\ built
    /\ ValidRatios(ratios[1], ratios[2])
    /\ train_data # <<>>
    /\ eval_data # <<>>
    /\ test_data # <<>>
    /\ train_data # eval_data

\* the positions of the annotations with a known type
KnownAnnotations == {i \in DOMAIN annotations : annotations[i].type \in KnownTypes}

\* the sample the builder of its type makes of one annotation
SampleOf(ann) == build_all_samples(<<ann>>)[1]

\* C11: build_from_annotations drops every annotation whose type is not one
\* of the three known types and makes one sample of every other annotation:
\* the three partitions together hold as many samples as there are input
\* annotations with a known type, and these samples are the samples of
\* those annotations.
C11_OneSamplePerKnownAnnotation ==
    built =>
        /\ Len(train_data) + Len(eval_data) + Len(test_data)
              = Cardinality(KnownAnnotations)
        /\ LET expected == [k \in KnownAnnotations |-> SampleOf(annotations[k])]
           IN \E p \in [1..Len(all_samples) -> KnownAnnotations] :
                /\ \A i, j \in 1..Len(all_samples) : i # j => p[i] # p[j]
                /\ \A i \in 1..Len(all_samples) : all_samples[i] = expected[p[i]]

C11_Witness ==
    /\ built
    /\ Cardinality(KnownAnnotations) >= 2
    /\ Cardinality(KnownAnnotations) < Len(annotations)
    /\ \E i, j \in KnownAnnotations : annotations[i].type # annotations[j].type

\* floor(total * num / den)
Floor(total, r) == (total * r.num) \div r.den

\* C10: train_size is floor(N * train_ratio) and eval_size is
\* floor(N * eval_ratio), for every N >= 0.
C10_FloorSizes ==
    split_out.done =>
        /\ split_out.train_size = Floor(split_in.total, split_in.train_ratio)
        /\ split_out.eval_size = Floor(split_in.total, split_in.eval_ratio)

====
